---- MODULE Spec2Model ----
(***************************************************************************)
(* notebookllm-lite: the document-ingestion and engine-lifecycle           *)
(* orchestration over three stores that fail independently: the Metadata   *)
(* Store (SQLite: engines, documents, tasks), the blob store (GCS) and the *)
(* remote search service (Discovery Engine: engines, data stores, index).  *)
(*                                                                         *)
(* Every remote call takes its outcome from a small set: the answer the    *)
(* remote state gives, or a fault.  The database statements that can fail  *)
(* are the engine lookup, the Engine row insert and delete, and the        *)
(* Document row save and purge.                                            *)
(***************************************************************************)
EXTENDS Integers, Sequences, FiniteSets, TLC

(***************************************************************************)
(* Bounds of the model.                                                    *)
(***************************************************************************)
MaxRequests == 2      \* ingest requests in flight
MaxClock == 1         \* seconds the wall clock may advance
MaxInitDocs == 2      \* Document rows the persisted store starts with
MaxDeleteCalls == 2   \* engine deletion calls in flight
MaxDocDeletes == 2    \* document deletion calls in flight
MaxListCalls == 1     \* listing calls
MaxGatewayCalls == 2  \* direct calls of gateway functions in flight
MaxRetries == 3       \* the largest max_retries a gateway function is called with
MaxNameLen == 2       \* characters of a display name given to the id generation
MaxListDocs == 2      \* Document rows a listing reads
MaxCreateCalls == 2   \* engine creation calls in flight

Requests == 1..MaxRequests
DeleteCalls == 1..MaxDeleteCalls
DocDeletes == 1..MaxDocDeletes
CreateCalls == 1..MaxCreateCalls
ListCalls == 1..MaxListCalls
GatewayCalls == 1..MaxGatewayCalls

(***************************************************************************)
(* Identifiers.  uuid4() values are drawn from small sets.  A string that  *)
(* the code builds character by character is a sequence of characters.     *)
(***************************************************************************)
\* The characters of display names: an upper-case and a lower-case letter,
\* a digit, the two characters replaced by a hyphen, the hyphen, a
\* punctuation mark and an upper-case letter outside ASCII.
NameChars == {"A", "b", "7", " ", "_", "-", "!", "É"}

\* str.lower on one character
lower_char(ch) == CASE ch = "A" -> "a" [] ch = "É" -> "é" [] OTHER -> ch

\* str.isalnum on one character
isalnum(ch) == ch \in {"A", "a", "b", "7", "É", "é"}

\* engine_id_base without the lower() call.
engine_id_base_without_lower(engine_name) ==
    LET hyphened == [i \in DOMAIN engine_name |->
                        IF engine_name[i] \in {" ", "_"} THEN "-" ELSE engine_name[i]]
        kept(ch) == isalnum(ch) \/ ch = "-"
    IN  SelectSeq(hyphened, kept)

\* create_engine.py:36  engine_name.lower().replace(" ", "-").replace("_", "-")
\* create_engine.py:37  ''.join(c for c in engine_id_base if c.isalnum() or c == '-')
engine_id_base(engine_name) ==
    LET lowered == [i \in DOMAIN engine_name |-> lower_char(engine_name[i])]
        hyphened == [i \in DOMAIN lowered |->
                        IF lowered[i] \in {" ", "_"} THEN "-" ELSE lowered[i]]
        kept(ch) == isalnum(ch) \/ ch = "-"
    IN  SelectSeq(hyphened, kept)

\* create_engine.py:38  f"{engine_id_base}-{str(uuid.uuid4())[:8]}"
GeneratedEngineId(engine_name, uuid4) ==
    engine_id_base(engine_name) \o <<"-">> \o SubSeq(uuid4, 1, 8)

\* str(uuid.uuid4()): 36 characters, hexadecimal digits in groups of 8, 4, 4,
\* 4 and 12 with hyphens between them.
HexChars == {"0", "1", "2", "3", "4", "5", "6", "7", "8", "9",
             "a", "b", "c", "d", "e", "f"}

FirstUuid ==
    <<"0", "a", "1", "b", "2", "c", "3", "d", "-", "4", "e", "5", "f",
      "-", "4", "a", "6", "b", "-", "8", "c", "7", "d", "-", "0", "1",
      "2", "3", "4", "5", "6", "7", "8", "9", "a", "b">>

SecondUuid ==
    <<"9", "f", "8", "e", "7", "d", "6", "c", "-", "5", "b", "4", "a",
      "-", "4", "3", "9", "2", "-", "8", "1", "7", "0", "-", "f", "e",
      "d", "c", "b", "a", "9", "8", "7", "6", "5", "4">>

Uuids == {FirstUuid, SecondUuid}

\* The display names of the engines of a deployment.
EngineNames == {<<"A", " ", "b">>, <<"A", "_", "b", "!">>}

EngineIds == {GeneratedEngineId(n, u) : n \in EngineNames, u \in Uuids}
DataStoreIds == {"ds1", "ds2"}
NoValue == "null"
NoEngineId == <<>>
NoDocumentId == <<>>
NoOutcome == [success_count |-> 0, failure_count |-> 0, error |-> "not called"]

\* ingestion_service.py:155, create_engine.py:81: the bucket of an
\* (engine_id, data_store_id) pair.
BucketName(engine_id, data_store_id) == <<engine_id, data_store_id>>

\* gcs_service.py:138-140: gs://{bucket_name}/documents/{timestamp}_{filename}
GcsUri(bucket_name, timestamp, filename) ==
    [scheme |-> "gs", bucket |-> bucket_name, ts |-> timestamp, name |-> filename]

(***************************************************************************)
(* Uploaded files: the filename and its extension as os.path.splitext      *)
(* returns it, and the number of bytes read.                               *)
(***************************************************************************)
Filenames == {"", "a.pdf", "b.TXT", "c.exe"}
FileSizes == {0, 5}

\* os.path.splitext(filename)[1]
splitext(filename) ==
    CASE filename = "a.pdf" -> ".pdf"
      [] filename = "b.TXT" -> ".TXT"
      [] filename = "c.exe" -> ".exe"
      [] OTHER -> ""

\* str.lower on the extensions above
lower(ext) == IF ext = ".TXT" THEN ".txt" ELSE ext

\* routers/ingest_document.py:44
allowed_extensions == {".pdf", ".docx", ".doc", ".txt", ".html", ".htm", ".md"}

(***************************************************************************)
(* Python's binding of a call's arguments to a function's parameters: a    *)
(* keyword that names a parameter already filled by position, a keyword    *)
(* that names no parameter, or too many positionals is a TypeError raised  *)
(* before the function body runs.                                          *)
(***************************************************************************)
BindCall(params, npositional, keywords) ==
    IF \/ npositional > Len(params)
       \/ \E i \in 1..npositional : i <= Len(params) /\ params[i] \in keywords
       \/ \E k \in keywords : \A i \in 1..Len(params) : params[i] # k
    THEN "TypeError"
    ELSE "ok"

\* database.py:168  def update_task_in_db(task_id, status, result=None, error=None)
update_task_in_db_params == <<"task_id", "status", "result", "error">>

\* ingestion_service.py:189  update_task_in_db(task_id, document_id, status="processing")
call_mark_processing == BindCall(update_task_in_db_params, 2, {"status"})
\* ingestion_service.py:231  update_task_in_db(task_id, document_id, status="completed", result=...)
call_mark_completed == BindCall(update_task_in_db_params, 2, {"status", "result"})
\* ingestion_service.py:237  update_task_in_db(task_id, document_id, status="failed", error=...)
call_mark_failed == BindCall(update_task_in_db_params, 2, {"status", "error"})

VARIABLES
    clock,            \* int(time.time())
    tasks,            \* Metadata Store, table tasks: task_id -> row
    engines,          \* table engines: engine_id -> row
    documents,        \* table documents: document_id -> row
    buckets,          \* blob store: the buckets that exist
    blobs,            \* blob store: the object URIs that exist
    remoteEngines,    \* search service: engine ids
    remoteDataStores, \* search service: data store ids
    indexed,          \* search service: <<data_store_id, document_id>> entries
    ing,              \* per ingest request: the endpoint's and the workflow's position
    del,              \* per engine deletion call: _delete_engine_logic's position and locals
    ddoc,             \* per document deletion call: delete_document_logic's position and locals
    engine_seq,       \* table engines: the last id AUTOINCREMENT gave out
    cre,              \* per engine creation call: _create_enterprise_engine_logic's position and locals
    lst,              \* per listing call: its arguments, the ORDER BY it ran and its answer
    gw                \* per direct call of a gateway function: its arguments, attempts and result

vars == <<clock, tasks, engines, documents, buckets, blobs, remoteEngines,
          remoteDataStores, indexed, ing, del, ddoc, engine_seq, cre, lst, gw>>


(***************************************************************************)
(* The Metadata Store (services/database.py).                              *)
(***************************************************************************)
Range(f) == {f[x] : x \in DOMAIN f}

\* database.py:159-166: INSERT INTO tasks (task_id, filename, status) VALUES (?, ?, 'pending')
create_task_in_db(t, task_id, filename) ==
    t @@ (task_id :> [filename |-> filename, status |-> "pending",
                      result |-> NoValue, error_message |-> NoValue])

\* database.py:168-174: UPDATE tasks SET status, result, error_message WHERE task_id = ?
update_task_in_db(t, task_id, status, result, error) ==
    [id \in DOMAIN t |->
        IF id = task_id
        THEN [t[id] EXCEPT !.status = status, !.result = result,
                           !.error_message = error]
        ELSE t[id]]

\* database.py:176-182: the row, or None
get_task_from_db(task_id) ==
    IF task_id \in DOMAIN tasks
    THEN tasks[task_id]
    ELSE [filename |-> NoValue, status |-> NoValue,
          result |-> NoValue, error_message |-> NoValue]

\* database.py:186-213: INSERT INTO documents; document_id is the PRIMARY KEY
\* (database.py:29), so a second row with the same id is an IntegrityError.
save_document_to_db(docs, document_id, engine_id, data_store_id, gcs_uri) ==
    IF document_id \in DOMAIN docs
    THEN [ok |-> FALSE, docs |-> docs]
    ELSE [ok |-> TRUE,
          docs |-> docs @@ (document_id :>
                     [engine_id |-> engine_id, data_store_id |-> data_store_id,
                      gcs_uri |-> gcs_uri])]

\* ingestion_service.py:18-35: the first 128 bits of sha256(gcs_uri), a function
\* of the URI alone.  The digest is taken over the URI's characters; the model
\* numbers the components and combines the numbers.
NameCode(s) ==
    CASE s = "ds1" -> 1 [] s = "ds2" -> 2
      [] s = "a.pdf" -> 1 [] s = "b.TXT" -> 2 [] s = "c.exe" -> 3 [] OTHER -> 0

EngineCode(engine_id) ==
    IF engine_id = NoEngineId THEN 0
    ELSE IF SubSeq(engine_id, Len(engine_id) - 7, Len(engine_id)) = SubSeq(FirstUuid, 1, 8)
         THEN 1 ELSE 2

\* gcs_uri.encode('utf-8'): the URI as a number, different for different URIs.
encode_utf8(gcs_uri) ==
    ((EngineCode(gcs_uri.bucket[1]) * 3 + NameCode(gcs_uri.bucket[2])) * 4
        + NameCode(gcs_uri.name)) * (MaxClock + 2) + gcs_uri.ts

\* hashlib.sha256(...).digest(): 32 bytes that depend on the input alone.  In
\* place of SHA-256, the first two bytes carry the input and the others are
\* mixed from it, so that different inputs have different digests.
sha256_digest(input) ==
    [i \in 1..32 |-> CASE i = 1 -> (input \div 256) % 256
                       [] i = 2 -> input % 256
                       [] OTHER -> (input * i + 7 * i) % 256]

HexDigit(n) ==
    <<"0", "1", "2", "3", "4", "5", "6", "7", "8", "9",
      "a", "b", "c", "d", "e", "f">>[n + 1]

\* bytes.hex(): two hexadecimal digits per byte
RECURSIVE hex(_)
hex(bytes) ==
    IF bytes = <<>> THEN <<>>
    ELSE <<HexDigit(Head(bytes) \div 16), HexDigit(Head(bytes) % 16)>> \o hex(Tail(bytes))

\* The document id with the digest cut to its first 8 bytes.
_calculate_document_id_from_first_8_bytes(gcs_uri) ==
    hex(SubSeq(sha256_digest(encode_utf8(gcs_uri)), 1, 8))

\* ingestion_service.py:30, 33: hash_bytes[:16].hex()
_calculate_document_id_from_gcs_uri(gcs_uri) ==
    hex(SubSeq(sha256_digest(encode_utf8(gcs_uri)), 1, 16))

(***************************************************************************)
(* The state a deployment starts in: the rows and remote resources that    *)
(* engine creation and completed ingestions leave behind.  The tables      *)
(* outlive the process (database.py:6, CREATE TABLE IF NOT EXISTS).        *)
(***************************************************************************)
\* The name an engine id of the deployment was generated from.
NameOf(engine_id) ==
    IF EngineCode(engine_id) = 1 THEN <<"A", " ", "b">> ELSE <<"A", "_", "b", "!">>

\* The id AUTOINCREMENT gave the row: rows are numbered in the order of
\* their insertion.
RowId(S, engine_id) ==
    Cardinality({x \in S : EngineCode(x) <= EngineCode(engine_id)})

EngineTables ==
    UNION { { [e \in S |-> [id |-> RowId(S, e), engine_name |-> NameOf(e),
                            data_store_id |-> f[e]]] :
                f \in [S -> DataStoreIds] } : S \in SUBSET EngineIds }

StoredFiles == {"a.pdf", "b.TXT"}

DocRowsOf(table) ==
    { [engine_id |-> e, data_store_id |-> table[e].data_store_id,
       gcs_uri |-> GcsUri(BucketName(e, table[e].data_store_id), 0, f)] :
        e \in DOMAIN table, f \in StoredFiles }

DocTable(rows) ==
    [id \in {_calculate_document_id_from_gcs_uri(d.gcs_uri) : d \in rows} |->
        CHOOSE d \in rows : _calculate_document_id_from_gcs_uri(d.gcs_uri) = id]

NoUri == GcsUri(<<NoEngineId, "">>, 0, "")

IdleRequest ==
    [pc |-> "idle", filename |-> "", engine_id |-> NoEngineId,
     data_store_id |-> NoValue, gcs_uri |-> NoUri, status_code |-> 0,
     fault |-> "none", env |-> "none"]

\* create_engine.py:29-54: the locals of _create_enterprise_engine_logic.
IdleCreate ==
    [pc |-> "idle", engine_name |-> <<>>, engine_id |-> NoEngineId,
     data_store_id |-> NoValue, data_store_status |-> "none",
     engine_confirmed |-> "none", row_id |-> 0, status_code |-> 0]

\* gcs_service.py:244: f"Failed to delete {len(failed_files)} files: {failed_files[:3]}"
NoWarning == [kind |-> "none", count |-> 0, listed |-> <<>>]

\* gcs_service.py:6-13, 113-120, ingestion_service.py:37-44: the arguments
\* and locals of a gateway function called on its own.
IdleGateway ==
    [pc |-> "idle", fn |-> "none", max_retries |-> 0, attempt |-> 0,
     bucket_name |-> <<>>, filename |-> "", timestamp |-> 0, gcs_uri |-> NoUri,
     data_store_id |-> NoValue, outcome |-> NoOutcome,
     success_count |-> 0, failure_count |-> 0, error |-> "none",
     retried |-> FALSE, written |-> {}, created |-> FALSE,
     waited |-> FALSE, fetched |-> FALSE, conflict |-> FALSE,
     engine_id |-> NoEngineId, gcs_uris |-> <<>>, attempted |-> <<>>,
     deleted_files |-> 0, failed_files |-> <<>>, success |-> FALSE,
     warning |-> NoWarning, data_store_uuid |-> <<>>,
     ingestion_bucket_name |-> <<>>]

\* routers/ingest_document.py:103-108: the arguments of a listing call.
IdleList ==
    [pc |-> "idle", engine_id |-> NoEngineId, limit |-> 0, offset |-> 0,
     sort_by |-> "", sort_order |-> "", sort_field |-> "", sort_direction |-> "",
     status_code |-> 0, returned |-> <<>>]

\* create_engine.py:225-229: the locals of _delete_engine_logic.
IdleDelete ==
    [pc |-> "idle", engine_id |-> NoEngineId, delete_data_store |-> FALSE,
     delete_gcs_files |-> FALSE, data_store_id |-> NoValue,
     engine_deleted |-> FALSE, data_store_deleted |-> FALSE,
     gcs_files_deleted |-> FALSE, warnings |-> <<>>, status_code |-> 0,
     db_lookup |-> "none", engine_response |-> "none", ds_response |-> "none",
     others_at_lookup |-> {}, uris_at_gcs_step |-> {}]

\* ingestion_service.py:322-323: the locals of delete_document_logic.
IdleDocDelete ==
    [pc |-> "idle", document_id |-> NoDocumentId, engine_id |-> NoEngineId,
     data_store_id |-> NoValue, gcs_uri |-> NoUri,
     datastore_deleted |-> FALSE, gcs_deleted |-> FALSE, database_deleted |-> FALSE,
     status_code |-> 0]

InitStores(rows) ==
    /\ documents = DocTable(rows)
    /\ buckets = {BucketName(e, engines[e].data_store_id) : e \in DOMAIN engines}
    /\ blobs = {d.gcs_uri : d \in rows}
    /\ remoteEngines = DOMAIN engines
    /\ remoteDataStores = {engines[e].data_store_id : e \in DOMAIN engines}
    /\ indexed = {<<d.data_store_id, _calculate_document_id_from_gcs_uri(d.gcs_uri)>> :
                    d \in rows}
    /\ clock = 0
    /\ tasks = <<>>
    /\ ing = [r \in Requests |-> IdleRequest]
    /\ del = [c \in DeleteCalls |-> IdleDelete]
    /\ ddoc = [k \in DocDeletes |-> IdleDocDelete]
    /\ engine_seq = Cardinality(DOMAIN engines)
    /\ cre = [k \in CreateCalls |-> IdleCreate]
    /\ lst = [l \in ListCalls |-> IdleList]
    /\ gw = [g \in GatewayCalls |-> IdleGateway]


(***************************************************************************)
(* Blob Store Gateway (services/gcs_service.py).                           *)
(***************************************************************************)
\* What one remote call can answer: the remote state's answer, a transient
\* error (unavailable, deadline, timeout, 5xx) or any other error.
CallOutcomes == {"answer", "transient", "fatal"}

\* locateBucket (spec 4.1), the _get_gcs_bucket that ingestion calls with its
\* default of 3 attempts: transient errors are retried, a genuine not-found
\* and any other error are raised at once.
RECURSIVE get_gcs_bucket_from(_, _, _, _)
get_gcs_bucket_from(attempt, max_retries, exists, outcomes) ==
    IF attempt >= max_retries THEN "raise"
    ELSE CASE outcomes[attempt + 1] = "answer" -> IF exists THEN "ok" ELSE "raise"
           [] outcomes[attempt + 1] = "transient" ->
                get_gcs_bucket_from(attempt + 1, max_retries, exists, outcomes)
           [] OTHER -> "raise"

locate_default_retries == 3

_get_gcs_bucket(bucket_name, outcomes) ==
    get_gcs_bucket_from(0, locate_default_retries, bucket_name \in buckets, outcomes)

\* The number of lookups one _get_gcs_bucket call makes.
RECURSIVE get_gcs_bucket_lookups(_, _, _)
get_gcs_bucket_lookups(attempt, max_retries, outcomes) ==
    IF attempt >= max_retries THEN 0
    ELSE IF outcomes[attempt + 1] = "transient"
    THEN 1 + get_gcs_bucket_lookups(attempt + 1, max_retries, outcomes)
    ELSE 1

\* gcs_service.py:142-180: the attempts of _upload_file_to_gcs.  "answer": the
\* object is written and blob.exists() is true; "lost": the write returns and
\* blob.exists() is false; "notfound": the bucket is not found.
UploadOutcomes == {"answer", "lost", "notfound", "transient", "fatal"}

RECURSIVE upload_from(_, _, _)
upload_from(attempt, max_retries, outcomes) ==
    IF attempt >= max_retries THEN "raise"
    ELSE CASE outcomes[attempt + 1] = "answer" -> "ok"
           [] outcomes[attempt + 1] \in {"notfound", "transient"} ->
                IF attempt < max_retries - 1
                THEN upload_from(attempt + 1, max_retries, outcomes)
                ELSE "raise"
           [] OTHER -> "raise"

_upload_file_to_gcs(max_retries, outcomes) == upload_from(0, max_retries, outcomes)

\* ingestion_service.py:185  max_retries=1
ingestion_upload_retries == 1
\* ingestion_service.py:207  max_retries=1
ingestion_import_retries == 1

(***************************************************************************)
(* Search Engine Gateway: _ingest_document_from_gcs                        *)
(* (ingestion_service.py:69-138).  One attempt's outcome is the operation's *)
(* metadata or an exception.                                               *)
(***************************************************************************)
\* ingestion_service.py:125-128
import_retry_keywords ==
    {"not found", "404", "unavailable", "deadline", "timeout", "503", "500",
     "does not exist", "no such object"}

\* The exceptions of import_documents and operation.result(), by their text.
ImportErrors ==
    {"503 unavailable", "404 not found", "403 permission denied", "502 bad gateway"}

ImportOutcomes ==
    {[success_count |-> sc, failure_count |-> fc, error |-> "none"] :
        sc \in {0, 1}, fc \in {0, 1, 500}}
    \cup {[success_count |-> 0, failure_count |-> 0, error |-> e] : e \in ImportErrors}

\* ingestion_service.py:89-108: the exception one attempt ends with, "none"
\* when it returns the counts.
import_attempt_error(outcome) ==
    IF outcome.error # "none" THEN outcome.error
    ELSE IF outcome.failure_count > 0
    THEN IF outcome.failure_count = 500 THEN "import had 500 failures"
         ELSE "import had 1 failures"
    ELSE IF outcome.success_count = 0
    THEN "import completed but no documents were successfully imported"
    ELSE "none"

\* The words of str(e).lower() that a keyword test can hit.
WordsIn(error) ==
    CASE error = "503 unavailable" -> {"503", "unavailable"}
      [] error = "404 not found" -> {"404", "not found"}
      [] error = "403 permission denied" -> {"403", "permission denied"}
      [] error = "502 bad gateway" -> {"502", "bad gateway"}
      [] error = "import had 500 failures" -> {"import had", "500", "failures"}
      [] error = "import had 1 failures" -> {"import had", "1", "failures"}
      [] OTHER -> {"import completed", "no documents"}

\* Every error is taken for retryable.
is_retryable_always(error) == TRUE

\* ingestion_service.py:122-128: any(keyword in error_msg for keyword in [...])
is_retryable(error) == WordsIn(error) \cap import_retry_keywords # {}

RECURSIVE import_from(_, _, _)
import_from(attempt, max_retries, outcomes) ==
    IF attempt >= max_retries THEN "raise"
    ELSE LET error == import_attempt_error(outcomes[attempt + 1])
         IN  IF error = "none" THEN "ok"
             ELSE IF is_retryable(error) /\ attempt < max_retries - 1
             THEN import_from(attempt + 1, max_retries, outcomes)
             ELSE "raise"

_ingest_document_from_gcs(max_retries, outcomes) == import_from(0, max_retries, outcomes)

(***************************************************************************)
(* POST /ingest-document (routers/ingest_document.py:27-67) and the         *)
(* workflow it runs, ingestion (services/ingestion_service.py:141-260).     *)
(* The task_id is a fresh uuid4: the request's own number.                 *)
(***************************************************************************)
HTTP_202_ACCEPTED == 202
HTTP_400_BAD_REQUEST == 400
HTTP_500_INTERNAL_SERVER_ERROR == 500

\* The endpoint with the filename checks moved ahead of the Task row: a
\* refused request leaves no row.
EndpointCreateTask_after_checks(r) ==
    /\ ing[r].pc = "idle"
    /\ \E filename \in Filenames :
        IF filename = "" \/ lower(splitext(filename)) \notin allowed_extensions
        THEN /\ ing' = [ing EXCEPT ![r].pc = "responded", ![r].filename = filename,
                                   ![r].status_code = HTTP_400_BAD_REQUEST]
             /\ tasks' = tasks
        ELSE /\ tasks' = create_task_in_db(tasks, r, filename)
             /\ ing' = [ing EXCEPT ![r].pc = "created", ![r].filename = filename]
    /\ UNCHANGED <<clock, engines, documents, buckets, blobs, remoteEngines,
                   remoteDataStores, indexed, del, ddoc, engine_seq, cre, lst, gw>>

\* ingest_document.py:39-40: the Task row is written first.
EndpointCreateTask(r) ==
    /\ ing[r].pc = "idle"
    /\ \E filename \in Filenames :
        /\ tasks' = create_task_in_db(tasks, r, filename)
        /\ ing' = [ing EXCEPT ![r].pc = "created", ![r].filename = filename]
    /\ UNCHANGED <<clock, engines, documents, buckets, blobs, remoteEngines,
                   remoteDataStores, indexed, del, ddoc, engine_seq, cre, lst, gw>>

\* ingest_document.py:41-60: the filename and extension checks, then the
\* workflow is started in a worker thread and awaited.
EndpointValidate(r) ==
    /\ ing[r].pc = "created"
    /\ IF ing[r].filename = "" \/ lower(splitext(ing[r].filename)) \notin allowed_extensions
       THEN ing' = [ing EXCEPT ![r].pc = "responded",
                               ![r].status_code = HTTP_400_BAD_REQUEST]
       ELSE \E e \in EngineIds, d \in DataStoreIds :
               ing' = [ing EXCEPT ![r].pc = "bucket", ![r].engine_id = e,
                                  ![r].data_store_id = d]
    /\ UNCHANGED <<clock, tasks, engines, documents, buckets, blobs, remoteEngines,
                   remoteDataStores, indexed, del, ddoc, engine_seq, cre, lst, gw>>

\* Step 1 creating the bucket it did not find and going on to the upload.
IngestLocateBucket_creating_when_absent(r) ==
    /\ ing[r].pc = "bucket"
    /\ buckets' = buckets \cup {BucketName(ing[r].engine_id, ing[r].data_store_id)}
    /\ ing' = [ing EXCEPT ![r].pc = "upload"]
    /\ UNCHANGED <<clock, tasks, engines, documents, blobs, remoteEngines,
                   remoteDataStores, indexed, del, ddoc, engine_seq, cre, lst, gw>>

\* ingestion_service.py:152-164, step 1: locate the bucket.
IngestLocateBucket(r) ==
    /\ ing[r].pc = "bucket"
    /\ \E outcomes \in [1..locate_default_retries -> CallOutcomes] :
        LET found == _get_gcs_bucket(
                        BucketName(ing[r].engine_id, ing[r].data_store_id), outcomes)
        IN  ing' = IF found = "ok"
                   THEN [ing EXCEPT ![r].pc = "upload"]
                   ELSE [ing EXCEPT ![r].pc = "raised", ![r].fault = "bucket",
                                    ![r].status_code = HTTP_500_INTERNAL_SERVER_ERROR]
    /\ UNCHANGED <<clock, tasks, engines, documents, buckets, blobs, remoteEngines,
                   remoteDataStores, indexed, del, ddoc, engine_seq, cre, lst, gw>>

\* ingestion_service.py:166-187, step 2: read the file, refuse an empty one,
\* upload it under documents/{timestamp}_{filename}.
IngestUpload(r) ==
    /\ ing[r].pc = "upload"
    /\ \E file_size \in FileSizes,
          outcomes \in [1..ingestion_upload_retries -> UploadOutcomes] :
        LET gcs_uri == GcsUri(BucketName(ing[r].engine_id, ing[r].data_store_id),
                              clock, ing[r].filename)
            uploaded == _upload_file_to_gcs(ingestion_upload_retries, outcomes)
        IN  IF file_size = 0
            THEN /\ ing' = [ing EXCEPT ![r].pc = "raised", ![r].fault = "empty",
                                       ![r].status_code = HTTP_400_BAD_REQUEST]
                 /\ blobs' = blobs
            ELSE IF uploaded = "ok"
            THEN /\ ing' = [ing EXCEPT ![r].pc = "uploaded", ![r].gcs_uri = gcs_uri]
                 /\ blobs' = blobs \cup {gcs_uri}
            ELSE /\ ing' = [ing EXCEPT ![r].pc = "raised", ![r].fault = "upload",
                                       ![r].status_code = HTTP_500_INTERNAL_SERVER_ERROR]
                 /\ blobs' = blobs
    /\ UNCHANGED <<clock, tasks, engines, documents, buckets, remoteEngines,
                   remoteDataStores, indexed, del, ddoc, engine_seq, cre, lst, gw>>


\* ingestion_service.py:217-239, step 4: persist the Document row and close
\* the Task.  An exception of the try block, the one of the call at line 231
\* included, reaches the handler at 234; an exception of the handler's own
\* call at 237 leaves ingestion.
IngestPersist(st, r, document_id, db_outcome) ==
    LET saved == IF db_outcome = "answer"
                 THEN save_document_to_db(st.documents, document_id, ing[r].engine_id,
                                          ing[r].data_store_id, ing[r].gcs_uri)
                 ELSE [ok |-> FALSE, docs |-> st.documents]
    IN  IF saved.ok /\ call_mark_completed = "ok"
        THEN [st EXCEPT !.documents = saved.docs,
                        !.tasks = update_task_in_db(st.tasks, r, "completed",
                                                    "success_message", NoValue),
                        !.pc = "returned"]
        ELSE IF call_mark_failed = "ok"
        THEN [st EXCEPT !.documents = saved.docs,
                        !.tasks = update_task_in_db(st.tasks, r, "failed",
                                                    NoValue, "error_message"),
                        !.pc = "returned"]
        ELSE [st EXCEPT !.documents = saved.docs, !.pc = "raised", !.fault = "task_update",
                        !.status_code = HTTP_500_INTERNAL_SERVER_ERROR]

\* Step 3 with the error of the import logged and step 4 run all the same.
IngestImport_ignoring_failure(st, r, document_id, import_outcomes, db_outcome) ==
    IngestPersist(st, r, document_id, db_outcome)

\* ingestion_service.py:199-215, step 3: the remote import, then step 4.
IngestImport(st, r, document_id, import_outcomes, db_outcome) ==
    IF _ingest_document_from_gcs(ingestion_import_retries, import_outcomes) = "ok"
    THEN IngestPersist([st EXCEPT !.indexed = st.indexed \cup
                                      {<<ing[r].data_store_id, document_id>>}],
                       r, document_id, db_outcome)
    ELSE [st EXCEPT !.pc = "raised", !.fault = "import",
                    !.status_code = HTTP_500_INTERNAL_SERVER_ERROR]

\* ingestion_service.py:188-197: still inside step 2's try block, the
\* document_id is derived from the URI and the Task is marked processing; any
\* exception here is re-raised as HTTP 500 "Failed to upload file to GCS".
\* Then steps 3 and 4.  env records what the remote import and the database
\* were going to answer.
IngestAfterUpload(r) ==
    /\ ing[r].pc = "uploaded"
    /\ \E import_outcomes \in [1..ingestion_import_retries -> ImportOutcomes],
          db_outcome \in {"answer", "fatal"} :
        LET document_id == _calculate_document_id_from_gcs_uri(ing[r].gcs_uri)
            st0 == [tasks |-> tasks, documents |-> documents, indexed |-> indexed,
                    pc |-> "uploaded", fault |-> "none", status_code |-> 0]
            st1 == IF call_mark_processing = "ok"
                   THEN IngestImport(
                            [st0 EXCEPT !.tasks = update_task_in_db(
                                            tasks, r, "processing", NoValue, NoValue)],
                            r, document_id, import_outcomes, db_outcome)
                   ELSE [st0 EXCEPT !.pc = "raised", !.fault = "task_update",
                                    !.status_code = HTTP_500_INTERNAL_SERVER_ERROR]
            env == IF _ingest_document_from_gcs(ingestion_import_retries,
                                                import_outcomes) # "ok"
                   THEN "import_fails"
                   ELSE IF db_outcome # "answer" THEN "save_fails" ELSE "healthy"
        IN  /\ tasks' = st1.tasks
            /\ documents' = st1.documents
            /\ indexed' = st1.indexed
            /\ ing' = [ing EXCEPT ![r].pc = st1.pc, ![r].fault = st1.fault,
                                  ![r].status_code = st1.status_code, ![r].env = env]
    /\ UNCHANGED <<clock, engines, buckets, blobs, remoteEngines, remoteDataStores,
                   del, ddoc, engine_seq, cre, lst, gw>>

\* ingest_document.py:54-67: the await ends when the worker thread has ended;
\* an exception of ingestion is the endpoint's, else the 202 acknowledgement.
EndpointRespond(r) ==
    /\ ing[r].pc \in {"raised", "returned"}
    /\ ing' = [ing EXCEPT ![r].pc = "responded",
                          ![r].status_code = IF ing[r].pc = "returned"
                                             THEN HTTP_202_ACCEPTED
                                             ELSE ing[r].status_code]
    /\ UNCHANGED <<clock, tasks, engines, documents, buckets, blobs, remoteEngines,
                   remoteDataStores, indexed, del, ddoc, engine_seq, cre, lst, gw>>

\* gcs_service.py:138: time.time() moves on.
Tick ==
    /\ clock < MaxClock
    /\ clock' = clock + 1
    /\ UNCHANGED <<tasks, engines, documents, buckets, blobs, remoteEngines,
                   remoteDataStores, indexed, ing, del, ddoc,
                   engine_seq, cre, lst, gw>>

InitIngest ==
    /\ engines \in EngineTables
    /\ InitStores({})

NextIngest ==
    \/ \E r \in Requests :
        \/ EndpointCreateTask(r)
        \/ EndpointValidate(r)
        \/ IngestLocateBucket(r)
        \/ IngestUpload(r)
        \/ IngestAfterUpload(r)
        \/ EndpointRespond(r)
    \/ Tick

SpecIngest == InitIngest /\ [][NextIngest]_vars


(***************************************************************************)
(* Ingestion: what a request has been through.                             *)
(***************************************************************************)
\* The worker thread has been started for the request.
WorkflowStarted(r) == ing[r].engine_id # NoEngineId

\* ingestion has returned or raised.
WorkflowEnded(r) ==
    \/ ing[r].pc \in {"raised", "returned"}
    \/ ing[r].pc = "responded" /\ WorkflowStarted(r)

\* _upload_file_to_gcs returned a URI and the try block of step 2 is over.
UploadStepOver(r) == ing[r].gcs_uri # NoUri /\ ing[r].pc # "uploaded"

CallerHasResponse(r) == ing[r].pc = "responded"

DocumentIdOf(r) == _calculate_document_id_from_gcs_uri(ing[r].gcs_uri)

\* C3: the Task reads pending until the upload completes, and once the upload
\* has succeeded and step 2 is over it reads processing or a terminal status
\* reached from processing, never pending.
C3_ProcessingOnceUploaded ==
    \A r \in Requests :
        /\ ing[r].pc \in {"created", "bucket", "upload"} =>
                get_task_from_db(r).status = "pending"
        /\ UploadStepOver(r) =>
                get_task_from_db(r).status \in {"processing", "completed", "failed"}

\* C4: when the bucket lookup and the upload succeeded and the remote import
\* and the database answer without error, the ended workflow leaves the Task
\* completed with a result and a Document row under the computed document_id.
C4_HealthyRunCompletes ==
    \A r \in Requests :
        (WorkflowEnded(r) /\ ing[r].env = "healthy") =>
            /\ get_task_from_db(r).status = "completed"
            /\ get_task_from_db(r).result # NoValue
            /\ DocumentIdOf(r) \in DOMAIN documents

\* C5: a workflow that ended on a failed step (bucket lookup, empty file,
\* upload, import) left the Task failed with an error message, and the caller
\* of the endpoint got the acknowledgement, not the error.
C5_FailureRecordedInTask ==
    \A r \in Requests :
        (WorkflowEnded(r) /\ ing[r].fault \in {"bucket", "empty", "upload", "import"}) =>
            /\ get_task_from_db(r).status = "failed"
            /\ get_task_from_db(r).error_message # NoValue
            /\ CallerHasResponse(r) => ing[r].status_code = HTTP_202_ACCEPTED

\* C6: the endpoint answers before the workflow of its file has finished: in
\* no state has the workflow ended while the caller still waits.
C6_ResponseBeforeWorkflowEnds ==
    \A r \in Requests : WorkflowEnded(r) => CallerHasResponse(r)

\* C7: every request the endpoint has taken up has its Task row, written
\* before the filename checks, and the row reads pending at the checks and
\* at the workflow's first remote call.
C7_TaskPendingOnAcceptance ==
    \A r \in Requests :
        /\ ing[r].pc # "idle" => r \in DOMAIN tasks
        /\ ing[r].pc \in {"created", "bucket"} => get_task_from_db(r).status = "pending"

\* C7's case: a request refused by the filename checks whose Task row exists
\* and reads pending.
C7_Witness ==
    \E r \in Requests :
        /\ ing[r].pc = "responded" /\ ~WorkflowStarted(r)
        /\ ing[r].status_code = HTTP_400_BAD_REQUEST
        /\ r \in DOMAIN tasks /\ tasks[r].status = "pending"

\* C8: when the upload and the import succeeded and the database refuses the
\* Document row, the Task is failed with the error, the blob and the index
\* entry stay, and no Document row exists for them.
C8_SaveFailureMarksTaskFailed ==
    \A r \in Requests :
        (WorkflowEnded(r) /\ ing[r].env = "save_fails") =>
            /\ get_task_from_db(r).status = "failed"
            /\ get_task_from_db(r).error_message # NoValue
            /\ ing[r].gcs_uri \in blobs
            /\ <<ing[r].data_store_id, DocumentIdOf(r)>> \in indexed
            /\ DocumentIdOf(r) \notin DOMAIN documents


\* Steps 3 and 4 run from the present state for a request whose upload has
\* returned, with the given answers of the remote import and the database.
StepsThreeAndFour(r, import_outcomes, db_outcome) ==
    IngestImport([tasks |-> tasks, documents |-> documents, indexed |-> indexed,
                  pc |-> "uploaded", fault |-> "none", status_code |-> 0],
                 r, DocumentIdOf(r), import_outcomes, db_outcome)

\* C22: a Document row is written only for a request whose upload returned a
\* URI with its object verified, and only when the import returned with
\* success_count > 0 and no failure (an import of zero successes and zero
\* failures is an error like any other); a request whose upload or import
\* failed has no row, and the row written is that of the request's URI.
C22_DocumentOnlyAfterUploadAndImport ==
    /\ \A id \in DOMAIN documents :
        \E r \in Requests :
            /\ ing[r].gcs_uri = documents[id].gcs_uri
            /\ ing[r].env \in {"healthy"}
    /\ \A r \in Requests :
        /\ ing[r].fault \in {"bucket", "empty", "upload", "import"} =>
                \A id \in DOMAIN documents : documents[id].gcs_uri # ing[r].gcs_uri
        /\ ing[r].pc = "uploaded" =>
            /\ ing[r].gcs_uri \in blobs
            /\ \A import_outcomes \in [1..ingestion_import_retries -> ImportOutcomes],
                  db_outcome \in {"answer", "fatal"} :
                LET after == StepsThreeAndFour(r, import_outcomes, db_outcome)
                IN  /\ import_attempt_error(import_outcomes[1]) # "none" =>
                        /\ after.documents = documents
                        /\ after.pc = "raised"
                    /\ after.documents # documents =>
                        /\ DOMAIN after.documents = DOMAIN documents \cup {DocumentIdOf(r)}
                        /\ after.documents[DocumentIdOf(r)].gcs_uri = ing[r].gcs_uri
                        /\ <<ing[r].data_store_id, DocumentIdOf(r)>> \in after.indexed

\* The upload of one request has returned its URI with the object in the
\* bucket, the upload of another has failed, and there is no Document row.
C22_Witness ==
    \E r, q \in Requests :
        /\ ing[r].pc = "uploaded" /\ ing[r].gcs_uri \in blobs
        /\ ing[q].pc = "raised" /\ ing[q].fault = "upload"
        /\ DOMAIN documents = {}

(***************************************************************************)
(* Engine deletion: _delete_engine_logic (services/create_engine.py:194-388) *)
(* with the Metadata Store queries and the blob deletion it calls.  Each of *)
(* its six steps is one action.                                            *)
(***************************************************************************)
HTTP_200_OK == 200
HTTP_404_NOT_FOUND == 404

\* database.py:117-136
get_engine_from_db(engine_id) ==
    IF engine_id \in DOMAIN engines THEN {engines[engine_id]} ELSE {}

\* The query with "engine_id = ?" in place of "engine_id != ?".
get_other_engines_wrong_comparison(data_store_id, exclude_engine_id) ==
    {e \in DOMAIN engines :
        engines[e].data_store_id = data_store_id /\ e = exclude_engine_id}

\* database.py:421-439: SELECT engine_id FROM engines
\*                      WHERE data_store_id = ? AND engine_id != ?
get_other_engines_using_datastore(data_store_id, exclude_engine_id) ==
    {e \in DOMAIN engines :
        engines[e].data_store_id = data_store_id /\ e # exclude_engine_id}

\* database.py:441-458: SELECT gcs_uri FROM documents WHERE engine_id = ?
get_document_gcs_uris_by_engine(engine_id) ==
    {documents[id].gcs_uri : id \in {i \in DOMAIN documents :
                                        documents[i].engine_id = engine_id}}

\* database.py:358-378: DELETE FROM engines WHERE engine_id = ?
delete_engine_from_db(engine_id) ==
    [e \in DOMAIN engines \ {engine_id} |-> engines[e]]

\* database.py:381-397: DELETE FROM documents WHERE engine_id = ?
delete_documents_by_engine(engine_id) ==
    [id \in {i \in DOMAIN documents : documents[i].engine_id # engine_id} |->
        documents[id]]

Warning(kind, others, failed) == [kind |-> kind, others |-> others, failed |-> failed]

\* The blob loop left after its first URI.
_delete_gcs_first_file_only(engine_id, client_outcome, failing) ==
    LET gcs_uris == {documents[id].gcs_uri :
                        id \in {i \in DOMAIN documents : documents[i].engine_id = engine_id}}
        first == IF gcs_uris = {} THEN {} ELSE {CHOOSE u \in gcs_uris : TRUE}
    IN  [success |-> TRUE, warning |-> <<>>, deleted |-> first \cap blobs]

\* The blob loop with a failed blob.delete() swallowed instead of recorded.
_delete_gcs_files_ignoring_failures(engine_id, client_outcome, failing) ==
    LET gcs_uris == {documents[id].gcs_uri :
                        id \in {i \in DOMAIN documents : documents[i].engine_id = engine_id}}
        deleted == {u \in gcs_uris : u.scheme = "gs" /\ u \in blobs /\ u \notin failing}
    IN  [success |-> TRUE, warning |-> <<>>, deleted |-> deleted]

\* gcs_service.py:184-252: every URI of the engine's Document rows is deleted
\* on its own; blob.delete() raises for a blob that is not there and for the
\* URIs in failing.  Returns (success, warning) and the blobs deleted.
_delete_gcs_bucket_and_files(engine_id, client_outcome, failing) ==
    LET gcs_uris == get_document_gcs_uris_by_engine(engine_id)
        deleted == {u \in gcs_uris : u.scheme = "gs" /\ u \in blobs /\ u \notin failing}
        failed_files == gcs_uris \ deleted
    IN  IF client_outcome # "answer"
        THEN [success |-> FALSE, warning |-> <<Warning("gcs_error", {}, {})>>,
              deleted |-> {}]
        ELSE IF gcs_uris = {}
        THEN [success |-> TRUE, warning |-> <<Warning("no_gcs_files", {}, {})>>,
              deleted |-> {}]
        ELSE IF failed_files # {}
        THEN [success |-> deleted # {},
              warning |-> <<Warning("gcs_failed", {}, failed_files)>>,
              deleted |-> deleted]
        ELSE [success |-> TRUE, warning |-> <<>>, deleted |-> deleted]

\* Step 1 without the "if not db_engine" check: the call goes on without a row.
DeleteEngineLookup_without_404(c) ==
    /\ del[c].pc = "idle"
    /\ \E engine_id \in EngineIds :
        del' = [del EXCEPT ![c] =
                    [@ EXCEPT !.pc = "engine", !.engine_id = engine_id,
                              !.db_lookup = "answer",
                              !.data_store_id =
                                  IF engine_id \in DOMAIN engines
                                  THEN engines[engine_id].data_store_id ELSE NoValue]]
    /\ UNCHANGED <<clock, tasks, engines, documents, buckets, blobs, remoteEngines,
                   remoteDataStores, indexed, ing, ddoc, engine_seq, cre, lst, gw>>

\* create_engine.py:231-252, step 1: the call arrives and looks the engine
\* up; no row is a 404, a failing query a RuntimeError.  The two flags of the
\* call are drawn where the code first reads them, in steps 3 and 4.
DeleteEngineLookup(c) ==
    /\ del[c].pc = "idle"
    /\ \E engine_id \in EngineIds, db_outcome \in {"answer", "fatal"} :
        LET args == [del[c] EXCEPT !.engine_id = engine_id, !.db_lookup = db_outcome]
            db_engine == get_engine_from_db(engine_id)
        IN  del' = [del EXCEPT ![c] =
                IF db_outcome # "answer"
                THEN [args EXCEPT !.pc = "raised",
                                  !.status_code = HTTP_500_INTERNAL_SERVER_ERROR]
                ELSE IF db_engine = {}
                THEN [args EXCEPT !.pc = "raised", !.status_code = HTTP_404_NOT_FOUND]
                ELSE [args EXCEPT
                        !.pc = "engine",
                        !.data_store_id = (CHOOSE row \in db_engine : TRUE).data_store_id,
                        !.others_at_lookup =
                            {e \in DOMAIN engines :
                                /\ e # engine_id
                                /\ engines[e].data_store_id = engines[engine_id].data_store_id}]]
    /\ UNCHANGED <<clock, tasks, engines, documents, buckets, blobs, remoteEngines,
                   remoteDataStores, indexed, ing, ddoc, engine_seq, cre, lst, gw>>

\* Step 2 without the "except NotFound" clause: not-found ends the call like
\* any other error.
DeleteRemoteEngine_not_found_fatal(c) ==
    /\ del[c].pc = "engine"
    /\ \E outcome \in {"answer", "fatal"} :
        IF outcome # "answer" \/ del[c].engine_id \notin remoteEngines
        THEN /\ del' = [del EXCEPT ![c].pc = "raised",
                                   ![c].engine_response =
                                        IF outcome # "answer" THEN "error" ELSE "not_found",
                                   ![c].status_code = HTTP_500_INTERNAL_SERVER_ERROR]
             /\ remoteEngines' = remoteEngines
        ELSE /\ remoteEngines' = remoteEngines \ {del[c].engine_id}
             /\ del' = [del EXCEPT ![c].pc = "gcs", ![c].engine_deleted = TRUE,
                                   ![c].engine_response = "deleted"]
    /\ UNCHANGED <<clock, tasks, engines, documents, buckets, blobs,
                   remoteDataStores, indexed, ing, ddoc, engine_seq, cre, lst, gw>>

\* create_engine.py:254-267, step 2: delete the remote engine; NotFound counts
\* as deleted, any other error ends the call.
DeleteRemoteEngine(c) ==
    /\ del[c].pc = "engine"
    /\ \E outcome \in {"answer", "fatal"} :
        IF outcome # "answer"
        THEN /\ del' = [del EXCEPT ![c].pc = "raised",
                                   ![c].engine_response = "error",
                                   ![c].status_code = HTTP_500_INTERNAL_SERVER_ERROR]
             /\ remoteEngines' = remoteEngines
        ELSE /\ remoteEngines' = remoteEngines \ {del[c].engine_id}
             /\ del' = [del EXCEPT
                    ![c].pc = "gcs",
                    ![c].engine_deleted = TRUE,
                    ![c].engine_response =
                        IF del[c].engine_id \in remoteEngines THEN "deleted"
                        ELSE "not_found",
                    ![c].warnings =
                        IF del[c].engine_id \in remoteEngines
                        THEN del[c].warnings
                        ELSE Append(del[c].warnings, Warning("engine_not_found", {}, {}))]
    /\ UNCHANGED <<clock, tasks, engines, documents, buckets, blobs,
                   remoteDataStores, indexed, ing, ddoc, engine_seq, cre, lst, gw>>

\* Step 3 with the Document purge of step 6 moved ahead of the blob deletion:
\* the URIs are gone when the blob deletion asks for them.
DeleteGcsFiles_after_purge(c) ==
    /\ del[c].pc = "gcs"
    /\ \E delete_gcs_files \in BOOLEAN :
        /\ del' = [del EXCEPT ![c].pc = "datastore",
                              ![c].delete_gcs_files = delete_gcs_files,
                              ![c].gcs_files_deleted = delete_gcs_files,
                              ![c].warnings =
                                    IF delete_gcs_files
                                    THEN Append(@, Warning("no_gcs_files", {}, {}))
                                    ELSE @]
        /\ documents' = delete_documents_by_engine(del[c].engine_id)
    /\ UNCHANGED <<clock, tasks, engines, buckets, blobs, remoteEngines,
                   remoteDataStores, indexed, ing, ddoc, engine_seq, cre, lst, gw>>

\* create_engine.py:269-297, step 3: when requested, and when no other Engine
\* row uses the data store, delete the blobs of the engine's documents.
DeleteGcsFiles(c) ==
    /\ del[c].pc = "gcs"
    /\ \E delete_gcs_files \in BOOLEAN, client_outcome \in {"answer", "fatal"},
          failing \in SUBSET get_document_gcs_uris_by_engine(del[c].engine_id) :
        LET other_engine_ids ==
                get_other_engines_using_datastore(del[c].data_store_id, del[c].engine_id)
            res == _delete_gcs_bucket_and_files(del[c].engine_id, client_outcome, failing)
            seen == [del[c] EXCEPT
                        !.pc = "datastore",
                        !.delete_gcs_files = delete_gcs_files,
                        !.uris_at_gcs_step =
                            {documents[i].gcs_uri : i \in {j \in DOMAIN documents :
                                documents[j].engine_id = del[c].engine_id}}]
        IN  IF ~delete_gcs_files
            THEN /\ del' = [del EXCEPT ![c] = seen]
                 /\ blobs' = blobs
            ELSE IF other_engine_ids # {}
            THEN /\ del' = [del EXCEPT ![c] =
                        [seen EXCEPT !.warnings =
                            Append(@, Warning("gcs_shared", other_engine_ids, {}))]]
                 /\ blobs' = blobs
            ELSE /\ del' = [del EXCEPT ![c] =
                        [seen EXCEPT !.gcs_files_deleted = res.success,
                                     !.warnings = @ \o res.warning]]
                 /\ blobs' = blobs \ res.deleted
    /\ UNCHANGED <<clock, tasks, engines, documents, buckets, remoteEngines,
                   remoteDataStores, indexed, ing, ddoc, engine_seq, cre, lst, gw>>

\* Step 4 without the "if delete_data_store": the data store is deleted
\* whenever no other Engine row uses it.
DeleteDataStore_ignoring_flag(c) ==
    /\ del[c].pc = "datastore"
    /\ \E delete_data_store \in BOOLEAN :
        LET next == [del[c] EXCEPT !.pc = "record",
                                   !.delete_data_store = delete_data_store]
        IN  IF get_other_engines_using_datastore(del[c].data_store_id,
                                                     del[c].engine_id) # {}
            THEN /\ del' = [del EXCEPT ![c] = next]
                 /\ UNCHANGED <<remoteDataStores, indexed>>
            ELSE /\ del' = [del EXCEPT ![c] =
                        [next EXCEPT !.data_store_deleted = TRUE,
                                     !.ds_response = "deleted"]]
                 /\ remoteDataStores' = remoteDataStores \ {del[c].data_store_id}
                 /\ indexed' = {x \in indexed : x[1] # del[c].data_store_id}
    /\ UNCHANGED <<clock, tasks, engines, documents, buckets, blobs, remoteEngines,
                   ing, ddoc, engine_seq, cre, lst, gw>>

\* Step 4 with the failure of the remote delete raised instead of recorded.
DeleteDataStore_raising_on_failure(c) ==
    /\ del[c].pc = "datastore"
    /\ \E delete_data_store \in BOOLEAN, outcome \in {"answer", "fatal"} :
        LET next == [del[c] EXCEPT !.pc = "record",
                                   !.delete_data_store = delete_data_store]
        IN  IF delete_data_store /\ outcome # "answer"
            THEN /\ del' = [del EXCEPT ![c] =
                        [next EXCEPT !.pc = "raised", !.ds_response = "error",
                                     !.status_code = HTTP_500_INTERNAL_SERVER_ERROR]]
                 /\ UNCHANGED <<remoteDataStores, indexed>>
            ELSE /\ del' = [del EXCEPT ![c] = next]
                 /\ UNCHANGED <<remoteDataStores, indexed>>
    /\ UNCHANGED <<clock, tasks, engines, documents, buckets, blobs, remoteEngines,
                   ing, ddoc, engine_seq, cre, lst, gw>>

\* create_engine.py:299-332, step 4: when requested, and when no other Engine
\* row uses the data store, delete the remote data store; NotFound counts as
\* deleted, any other error is a warning.
DeleteDataStore(c) ==
    /\ del[c].pc = "datastore"
    /\ \E delete_data_store \in BOOLEAN, outcome \in {"answer", "fatal"} :
        LET other_engine_ids ==
                get_other_engines_using_datastore(del[c].data_store_id, del[c].engine_id)
            next == [del[c] EXCEPT !.pc = "record",
                                   !.delete_data_store = delete_data_store]
        IN  IF ~delete_data_store
            THEN /\ del' = [del EXCEPT ![c] = next]
                 /\ UNCHANGED <<remoteDataStores, indexed>>
            ELSE IF other_engine_ids # {}
            THEN /\ del' = [del EXCEPT ![c] =
                        [next EXCEPT !.warnings =
                            Append(@, Warning("ds_shared", other_engine_ids, {}))]]
                 /\ UNCHANGED <<remoteDataStores, indexed>>
            ELSE IF outcome # "answer"
            THEN /\ del' = [del EXCEPT ![c] =
                        [next EXCEPT !.ds_response = "error",
                                     !.warnings = Append(@, Warning("ds_failed", {}, {}))]]
                 /\ UNCHANGED <<remoteDataStores, indexed>>
            ELSE /\ del' = [del EXCEPT ![c] =
                        [next EXCEPT
                            !.data_store_deleted = TRUE,
                            !.ds_response =
                                IF del[c].data_store_id \in remoteDataStores
                                THEN "deleted" ELSE "not_found",
                            !.warnings =
                                IF del[c].data_store_id \in remoteDataStores
                                THEN @
                                ELSE Append(@, Warning("ds_not_found", {}, {}))]]
                 /\ remoteDataStores' = remoteDataStores \ {del[c].data_store_id}
                 /\ indexed' = {x \in indexed : x[1] # del[c].data_store_id}
    /\ UNCHANGED <<clock, tasks, engines, documents, buckets, blobs, remoteEngines,
                   ing, ddoc, engine_seq, cre, lst, gw>>

\* create_engine.py:334-341, step 5: delete the Engine row; a database error
\* ends the call.
DeleteEngineRecord(c) ==
    /\ del[c].pc = "record"
    /\ \E db_outcome \in {"answer", "fatal"} :
        IF db_outcome # "answer"
        THEN /\ del' = [del EXCEPT ![c].pc = "raised",
                                   ![c].status_code = HTTP_500_INTERNAL_SERVER_ERROR]
             /\ engines' = engines
        ELSE /\ del' = [del EXCEPT ![c].pc = "documents"]
             /\ engines' = delete_engine_from_db(del[c].engine_id)
    /\ UNCHANGED <<clock, tasks, documents, buckets, blobs, remoteEngines,
                   remoteDataStores, indexed, ing, ddoc, engine_seq, cre, lst, gw>>

\* create_engine.py:343-388, step 6: delete the engine's Document rows, then
\* return the result.
DeleteDocumentRecords(c) ==
    /\ del[c].pc = "documents"
    /\ \E db_outcome \in {"answer", "fatal"} :
        IF db_outcome # "answer"
        THEN /\ del' = [del EXCEPT ![c].pc = "done", ![c].status_code = HTTP_200_OK,
                                   ![c].warnings =
                                        Append(@, Warning("docs_failed", {}, {}))]
             /\ documents' = documents
        ELSE /\ del' = [del EXCEPT ![c].pc = "done", ![c].status_code = HTTP_200_OK]
             /\ documents' = delete_documents_by_engine(del[c].engine_id)
    /\ UNCHANGED <<clock, tasks, engines, buckets, blobs, remoteEngines,
                   remoteDataStores, indexed, ing, ddoc, engine_seq, cre, lst, gw>>

InitDelete ==
    /\ engines \in EngineTables
    /\ \E rows \in SUBSET DocRowsOf(engines) :
        /\ Cardinality(rows) <= MaxInitDocs
        /\ InitStores(rows)

NextDelete ==
    \E c \in DeleteCalls :
        \/ DeleteEngineLookup(c)
        \/ DeleteRemoteEngine(c)
        \/ DeleteGcsFiles(c)
        \/ DeleteDataStore(c)
        \/ DeleteEngineRecord(c)
        \/ DeleteDocumentRecords(c)

SpecDelete == InitDelete /\ [][NextDelete]_vars


(***************************************************************************)
(* Engine deletion: what a call has seen.                                  *)
(***************************************************************************)
\* The Engine rows other than the call's own that carry its data_store_id.
OtherUsers(c) ==
    {e \in DOMAIN engines :
        e # del[c].engine_id /\ engines[e].data_store_id = del[c].data_store_id}

BothFlags(c) == del[c].delete_gcs_files /\ del[c].delete_data_store

HasWarning(c, kind) == \E i \in DOMAIN del[c].warnings : del[c].warnings[i].kind = kind

\* No blob, data store or Document row deletion of the call failed.
NoFailedStep(c) ==
    \A i \in DOMAIN del[c].warnings :
        del[c].warnings[i].kind \notin {"gcs_failed", "gcs_error", "ds_failed", "docs_failed"}

\* The data store, the blobs of the Document rows the engine had at the blob
\* step, the Engine row and the engine's Document rows are gone.
AllAbsent(c) ==
    /\ del[c].data_store_id \notin remoteDataStores
    /\ del[c].uris_at_gcs_step \cap blobs = {}
    /\ del[c].engine_id \notin DOMAIN engines
    /\ \A id \in DOMAIN documents : documents[id].engine_id # del[c].engine_id

StoresUnchanged ==
    UNCHANGED <<engines, documents, blobs, buckets, remoteEngines, remoteDataStores,
                indexed>>

C10_UnknownEngineChangesNothing ==
    [][\A c \in DeleteCalls :
        /\ (del[c].pc = "idle" /\ del'[c].pc # "idle"
                /\ del'[c].engine_id \notin DOMAIN engines) =>
                /\ del'[c].pc = "raised"
                /\ del'[c].db_lookup = "answer" =>
                        del'[c].status_code = HTTP_404_NOT_FOUND
                /\ StoresUnchanged
        /\ del[c].pc = "raised" => del'[c] = del[c]
      ]_vars

\* C10's case: a call has ended with 404 for an engine without a row while
\* rows, blobs and remote resources of another engine exist.
C10_Witness ==
    \E c \in DeleteCalls :
        /\ del[c].pc = "raised" /\ del[c].status_code = HTTP_404_NOT_FOUND
        /\ del[c].engine_id \notin DOMAIN engines
        /\ DOMAIN engines # {} /\ DOMAIN documents # {} /\ blobs # {}
        /\ remoteEngines # {} /\ remoteDataStores # {}


(***************************************************************************)
(* Document deletion: delete_document_logic                                *)
(* (services/ingestion_service.py:298-376).                                *)
(***************************************************************************)
\* database.py:333-356: DELETE FROM documents WHERE document_id = ? AND
\* engine_id = ?; returns the table and rowcount > 0.
delete_document_from_db(document_id, engine_id) ==
    LET hit == document_id \in DOMAIN documents
               /\ documents[document_id].engine_id = engine_id
    IN  [deleted |-> hit,
         docs |-> IF hit
                  THEN [id \in DOMAIN documents \ {document_id} |-> documents[id]]
                  ELSE documents]

\* ingestion_service.py:298-321: the call arrives with the id of a Document
\* row, an engine id, the row's data store and the row's URI or none.
DocDeleteCall(k) ==
    /\ ddoc[k].pc = "idle"
    /\ \E document_id \in DOMAIN documents, engine_id \in EngineIds, with_uri \in BOOLEAN :
        ddoc' = [ddoc EXCEPT ![k] =
                    [@ EXCEPT !.pc = "index", !.document_id = document_id,
                              !.engine_id = engine_id,
                              !.data_store_id = documents[document_id].data_store_id,
                              !.gcs_uri = IF with_uri THEN documents[document_id].gcs_uri
                                          ELSE NoUri]]
    /\ UNCHANGED <<clock, tasks, engines, documents, buckets, blobs, remoteEngines,
                   remoteDataStores, indexed, ing, del, engine_seq, cre, lst, gw>>

\* The step with the except clause missing: a failed index delete ends the call.
DocDeleteIndex_stopping_on_failure(k) ==
    /\ ddoc[k].pc = "index"
    /\ \E outcome \in {"answer", "fatal"} :
        LET entry == <<ddoc[k].data_store_id, ddoc[k].document_id>>
        IN  IF outcome = "answer" /\ entry \in indexed
            THEN /\ indexed' = indexed \ {entry}
                 /\ ddoc' = [ddoc EXCEPT ![k].pc = "blob", ![k].datastore_deleted = TRUE]
            ELSE /\ indexed' = indexed
                 /\ ddoc' = [ddoc EXCEPT ![k].pc = "raised"]
    /\ UNCHANGED <<clock, tasks, engines, documents, buckets, blobs, remoteEngines,
                   remoteDataStores, ing, del, engine_seq, cre, lst, gw>>

\* ingestion_service.py:322-346, step 1: delete_document on the index; NotFound
\* and every other error are caught and leave datastore_deleted False.
DocDeleteIndex(k) ==
    /\ ddoc[k].pc = "index"
    /\ \E outcome \in {"answer", "fatal"} :
        LET entry == <<ddoc[k].data_store_id, ddoc[k].document_id>>
        IN  IF outcome = "answer" /\ entry \in indexed
            THEN /\ indexed' = indexed \ {entry}
                 /\ ddoc' = [ddoc EXCEPT ![k].pc = "blob", ![k].datastore_deleted = TRUE]
            ELSE /\ indexed' = indexed
                 /\ ddoc' = [ddoc EXCEPT ![k].pc = "blob"]
    /\ UNCHANGED <<clock, tasks, engines, documents, buckets, blobs, remoteEngines,
                   remoteDataStores, ing, del, engine_seq, cre, lst, gw>>

\* ingestion_service.py:348-360, step 2: with a gs:// URI, blob.delete(); a
\* missing blob and every other error are caught and leave gcs_deleted False.
DocDeleteBlob(k) ==
    /\ ddoc[k].pc = "blob"
    /\ \E outcome \in {"answer", "fatal"} :
        IF ddoc[k].gcs_uri # NoUri /\ ddoc[k].gcs_uri.scheme = "gs"
           /\ outcome = "answer" /\ ddoc[k].gcs_uri \in blobs
        THEN /\ blobs' = blobs \ {ddoc[k].gcs_uri}
             /\ ddoc' = [ddoc EXCEPT ![k].pc = "record", ![k].gcs_deleted = TRUE]
        ELSE /\ blobs' = blobs
             /\ ddoc' = [ddoc EXCEPT ![k].pc = "record"]
    /\ UNCHANGED <<clock, tasks, engines, documents, buckets, remoteEngines,
                   remoteDataStores, indexed, ing, del, engine_seq, cre, lst, gw>>

\* ingestion_service.py:362-375, step 3: the row is deleted and the summary
\* returned.
DocDeleteRecord(k) ==
    /\ ddoc[k].pc = "record"
    /\ LET db == delete_document_from_db(ddoc[k].document_id, ddoc[k].engine_id)
       IN  /\ documents' = db.docs
           /\ ddoc' = [ddoc EXCEPT ![k].pc = "done", ![k].database_deleted = db.deleted]
    /\ UNCHANGED <<clock, tasks, engines, buckets, blobs, remoteEngines,
                   remoteDataStores, indexed, ing, del, engine_seq, cre, lst, gw>>

InitDocDelete ==
    /\ engines \in EngineTables
    /\ \E rows \in SUBSET DocRowsOf(engines) :
        /\ Cardinality(rows) <= MaxInitDocs
        /\ InitStores(rows)

NextDocDelete ==
    \E k \in DocDeletes :
        \/ DocDeleteCall(k)
        \/ DocDeleteIndex(k)
        \/ DocDeleteBlob(k)
        \/ DocDeleteRecord(k)

SpecDocDelete == InitDocDelete /\ [][NextDocDelete]_vars

\* The Document row the call names exists under the engine the call names.
RecordExists(k) ==
    /\ ddoc[k].document_id \in DOMAIN documents
    /\ documents[ddoc[k].document_id].engine_id = ddoc[k].engine_id

\* C9: every step of a call leads to the next one whatever its outcome, so
\* the row delete is always reached; datastore_deleted is set exactly when
\* the index step removed the entry, gcs_deleted exactly when the blob step
\* removed the blob, and database_deleted is true exactly when the row was
\* there at the row delete, which leaves it absent.
C9_DeletionStepsIndependent ==
    [][\A k \in DocDeletes :
        LET entry == <<ddoc[k].data_store_id, ddoc[k].document_id>>
        IN  ddoc'[k] # ddoc[k] =>
            /\ ddoc[k].pc = "index" =>
                /\ ddoc'[k].pc = "blob"
                /\ ddoc'[k].datastore_deleted = (entry \in indexed /\ entry \notin indexed')
                /\ ddoc'[k].gcs_deleted = FALSE
            /\ ddoc[k].pc = "blob" =>
                /\ ddoc'[k].pc = "record"
                /\ ddoc'[k].gcs_deleted =
                        (ddoc[k].gcs_uri \in blobs /\ ddoc[k].gcs_uri \notin blobs')
                /\ ddoc'[k].datastore_deleted = ddoc[k].datastore_deleted
            /\ ddoc[k].pc = "record" =>
                /\ ddoc'[k].pc = "done"
                /\ ddoc'[k].database_deleted = RecordExists(k)
                /\ ddoc[k].document_id \notin DOMAIN documents'
                        \/ documents'[ddoc[k].document_id].engine_id # ddoc[k].engine_id
                /\ ddoc'[k].datastore_deleted = ddoc[k].datastore_deleted
                /\ ddoc'[k].gcs_deleted = ddoc[k].gcs_deleted
      ]_vars

\* C9's case: a call whose index delete and blob delete both failed has
\* returned with the row deleted.
C9_Witness ==
    \E k \in DocDeletes :
        /\ ddoc[k].pc = "done"
        /\ ~ddoc[k].datastore_deleted /\ ~ddoc[k].gcs_deleted
        /\ ddoc[k].gcs_uri # NoUri
        /\ ddoc[k].database_deleted
        /\ ddoc[k].document_id \notin DOMAIN documents


\* 32 hexadecimal digits
IsHex32(id) == Len(id) = 32 /\ \A i \in 1..32 : id[i] \in HexChars

Stepped(c) == del'[c] # del[c]

\* The step appended one warning of the given kind.
Warned(c, kind) ==
    /\ Len(del'[c].warnings) = Len(del[c].warnings) + 1
    /\ del'[c].warnings[Len(del'[c].warnings)].kind = kind

\* The Document rows of the call's engine.
DocumentsOf(c) == {i \in DOMAIN documents : documents[i].engine_id = del[c].engine_id}

\* Steps 3, 4 and 6 go on to the next step whatever happens, and each either
\* does its deletion or appends the warning of its failure; the call ends
\* with 200.
WarningStepsGoOn(c) ==
    /\ del[c].pc = "gcs" =>
        /\ del'[c].pc = "datastore"
        /\ (del'[c].delete_gcs_files /\ OtherUsers(c) = {}) =>
                \/ \A i \in DocumentsOf(c) : documents[i].gcs_uri \notin blobs'
                \/ Warned(c, "gcs_failed") \/ Warned(c, "gcs_error")
    /\ del[c].pc = "datastore" =>
        /\ del'[c].pc = "record"
        /\ (del'[c].delete_data_store /\ OtherUsers(c) = {}) =>
                \/ del[c].data_store_id \notin remoteDataStores'
                \/ Warned(c, "ds_failed")
    /\ del[c].pc = "documents" =>
        /\ del'[c].pc = "done"
        /\ del'[c].status_code = HTTP_200_OK
        /\ \/ \A i \in DOMAIN documents' : documents'[i].engine_id # del[c].engine_id
           \/ Warned(c, "docs_failed")

\* C11 as stated: once the Engine row is found, the call ends with an error
\* only at the remote engine delete, on an error other than not-found; the
\* blob, data store, Engine row and Document row steps never end it.
C11_OnlyEngineDeleteAborts ==
    [][\A c \in DeleteCalls :
        Stepped(c) =>
            /\ (del[c].pc # "idle" /\ del'[c].pc = "raised") =>
                    del[c].pc = "engine" /\ del'[c].engine_response = "error"
            /\ WarningStepsGoOn(c)
            /\ del[c].pc = "record" => del'[c].pc = "documents"
      ]_vars

\* C11 amended: the call ends with an error only at the remote engine delete
\* (error other than not-found) or at the Engine row delete; the blob, data
\* store and Document row steps record a warning and the call returns 200.
C11_EngineDeleteAndRecordDeleteAbort ==
    [][\A c \in DeleteCalls :
        Stepped(c) =>
            /\ (del[c].pc # "idle" /\ del'[c].pc = "raised") =>
                    \/ del[c].pc = "engine" /\ del'[c].engine_response = "error"
                    \/ del[c].pc = "record" /\ engines' = engines
            /\ WarningStepsGoOn(c)
            /\ del[c].pc = "record" =>
                    \/ del'[c].pc = "documents" /\ del[c].engine_id \notin DOMAIN engines'
                    \/ del'[c].pc = "raised"
      ]_vars

\* C11's case: a call whose blob deletion, data store deletion and Document
\* purge all failed has returned 200 with the three warnings.
C11_Witness ==
    \E c \in DeleteCalls :
        /\ del[c].pc = "done" /\ del[c].status_code = HTTP_200_OK
        /\ HasWarning(c, "gcs_failed") /\ HasWarning(c, "ds_failed")
        /\ HasWarning(c, "docs_failed")
        /\ del[c].engine_id \notin DOMAIN engines


\* C12: a remote engine delete or a remote data store delete answered with
\* not-found (the resource is not there) reports the resource deleted, ends
\* with no error and hands over to the next step.
C12_NotFoundCountsAsDeleted ==
    [][\A c \in DeleteCalls :
        Stepped(c) =>
            /\ (del[c].pc = "engine" /\ del'[c].engine_response = "not_found") =>
                    /\ del[c].engine_id \notin remoteEngines
                    /\ del'[c].pc = "gcs"
                    /\ del'[c].engine_deleted
                    /\ del'[c].status_code = del[c].status_code
            /\ (del[c].pc = "engine" /\ del'[c].pc = "gcs"
                    /\ del[c].engine_id \notin remoteEngines) =>
                    del'[c].engine_response = "not_found"
            /\ (del[c].pc = "datastore" /\ del'[c].ds_response = "not_found") =>
                    /\ del[c].data_store_id \notin remoteDataStores
                    /\ del'[c].pc = "record"
                    /\ del'[c].data_store_deleted
                    /\ del'[c].status_code = del[c].status_code
      ]_vars

\* C12's case: a call that got not-found from both remote deletes has
\* returned 200 with both flags true, its Engine row deleted.
C12_Witness ==
    \E c \in DeleteCalls :
        /\ del[c].pc = "done" /\ del[c].status_code = HTTP_200_OK
        /\ del[c].engine_response = "not_found" /\ del[c].ds_response = "not_found"
        /\ del[c].engine_deleted /\ del[c].data_store_deleted
        /\ del[c].engine_id \notin DOMAIN engines


\* The order of the steps of one call.
StepOrder ==
    {<<"idle", "engine">>, <<"idle", "raised">>, <<"engine", "gcs">>,
     <<"engine", "raised">>, <<"gcs", "datastore">>, <<"datastore", "record">>,
     <<"record", "documents">>, <<"record", "raised">>, <<"documents", "done">>}

\* C13: a call goes through lookup, remote engine delete, blob deletion, data
\* store deletion, Engine row deletion and Document purge in this order; each
\* store is changed only by its own step; blobs, data store and rows are
\* changed only after the remote engine delete answered deleted or not-found;
\* Document rows are removed only by the last step, after the blob step.
C13_StepsInFixedOrder ==
    [][\A c \in DeleteCalls :
        Stepped(c) =>
            /\ <<del[c].pc, del'[c].pc>> \in StepOrder
            /\ remoteEngines' # remoteEngines => del[c].pc = "engine"
            /\ blobs' # blobs => del[c].pc = "gcs"
            /\ (remoteDataStores' # remoteDataStores \/ indexed' # indexed) =>
                    del[c].pc = "datastore"
            /\ engines' # engines => del[c].pc = "record"
            /\ documents' # documents => del[c].pc = "documents"
            /\ (blobs' # blobs \/ remoteDataStores' # remoteDataStores
                    \/ engines' # engines \/ documents' # documents) =>
                    /\ del[c].engine_deleted
                    /\ del[c].engine_response \in {"deleted", "not_found"}
      ]_vars

\* C13's case: a call has returned after each of its six steps did its
\* deletion.
C13_Witness ==
    \E c \in DeleteCalls :
        /\ del[c].pc = "done"
        /\ del[c].engine_response = "deleted" /\ del[c].ds_response = "deleted"
        /\ del[c].gcs_files_deleted /\ del[c].uris_at_gcs_step # {}
        /\ del[c].uris_at_gcs_step \cap blobs = {}
        /\ AllAbsent(c)
        /\ del[c].warnings = <<>>


\* The Document rows the step removes.
PurgedRows == DOMAIN documents \ DOMAIN documents'

\* The blob deletion of the call was requested, not skipped for a shared data
\* store, and reported no failure.
BlobDeletionClean(c) ==
    /\ del[c].delete_gcs_files
    /\ ~HasWarning(c, "gcs_shared")
    /\ ~HasWarning(c, "gcs_failed") /\ ~HasWarning(c, "gcs_error")

C15_FlagsGuardOnlyBlobsAndDataStore ==
    [][\A c \in DeleteCalls :
        Stepped(c) =>
            /\ (del[c].pc = "gcs" /\ ~del'[c].delete_gcs_files) =>
                    blobs' = blobs /\ ~del'[c].gcs_files_deleted
            /\ (del[c].pc = "datastore" /\ ~del'[c].delete_data_store) =>
                    /\ remoteDataStores' = remoteDataStores
                    /\ ~del'[c].data_store_deleted
            /\ (del[c].pc = "engine" /\ del'[c].pc # "raised") =>
                    del[c].engine_id \notin remoteEngines'
            /\ (del[c].pc = "record" /\ del'[c].pc # "raised") =>
                    del[c].engine_id \notin DOMAIN engines'
            /\ (del[c].pc = "documents" /\ ~Warned(c, "docs_failed")) =>
                    \A i \in DOMAIN documents' :
                        documents'[i].engine_id # del[c].engine_id
      ]_vars

\* C15's case: a call with both flags false has returned; the blobs of its
\* engine's documents and the data store are still there, the remote engine,
\* the Engine row and the Document rows are gone.
C15_Witness ==
    \E c \in DeleteCalls :
        /\ del[c].pc = "done"
        /\ ~del[c].delete_gcs_files /\ ~del[c].delete_data_store
        /\ del[c].uris_at_gcs_step # {}
        /\ del[c].uris_at_gcs_step \subseteq blobs
        /\ del[c].data_store_id \in remoteDataStores
        /\ del[c].engine_id \notin remoteEngines
        /\ del[c].engine_id \notin DOMAIN engines
        /\ \A i \in DOMAIN documents : documents[i].engine_id # del[c].engine_id


(***************************************************************************)
(* Engine creation: _create_enterprise_engine_logic                        *)
(* (services/create_engine.py:15-141), _create_data_store                  *)
(* (services/datastore_service.py:5-68) and POST /create-engine            *)
(* (routers/engine_router.py:28-67), which answers every exception of the  *)
(* logic with 500.  A create call of the search service answers, fails, or *)
(* fails after the resource was created ("late": the wait for the          *)
(* long-running operation ends in an error).                               *)
(***************************************************************************)
HTTP_201_CREATED == 201

CreateOutcomes == {"answer", "late", "fatal"}

\* save_engine_to_db with INSERT OR REPLACE: the row of an engine_id that is
\* there is replaced by a new one.
save_engine_to_db_replacing(table, seq, engine_id, engine_name, data_store_id) ==
    [table |-> [e \in DOMAIN table \cup {engine_id} |->
                    IF e = engine_id
                    THEN [id |-> seq + 1, engine_name |-> engine_name,
                          data_store_id |-> data_store_id]
                    ELSE table[e]],
     seq |-> seq + 1, row_id |-> seq + 1]

\* database.py:85-114: INSERT INTO engines; engine_id is UNIQUE
\* (database.py:19), so a second row with the same engine_id is an
\* IntegrityError, answered with the id of the row that is there.
save_engine_to_db(table, seq, engine_id, engine_name, data_store_id) ==
    IF engine_id \in DOMAIN table
    THEN [table |-> table, seq |-> seq, row_id |-> table[engine_id].id]
    ELSE [table |-> table @@ (engine_id :>
                        [id |-> seq + 1, engine_name |-> engine_name,
                         data_store_id |-> data_store_id]),
          seq |-> seq + 1, row_id |-> seq + 1]

\* ensureBucketExists (spec 4.1), the _create_gcs_bucket that engine creation
\* calls: the bucket exists when the call returns, an error is raised.
_create_gcs_bucket(bucket_name, outcome) ==
    IF outcome = "answer"
    THEN [ok |-> TRUE, buckets |-> buckets \cup {bucket_name}]
    ELSE [ok |-> FALSE, buckets |-> buckets]

\* The call has raised; the endpoint answers 500.
CreateRaised(k, call) ==
    cre' = [cre EXCEPT ![k] = [call EXCEPT !.pc = "raised",
                                   !.status_code = HTTP_500_INTERNAL_SERVER_ERROR]]

\* create_engine.py:29-46: the engine client, then the two generated ids.
CreateGenerateIds(k) ==
    /\ cre[k].pc = "idle"
    /\ \E client_outcome \in {"answer", "fatal"}, engine_name \in EngineNames,
          uuid4 \in Uuids, data_store_id \in DataStoreIds :
        IF client_outcome # "answer"
        THEN CreateRaised(k, cre[k])
        ELSE cre' = [cre EXCEPT ![k] =
                        [@ EXCEPT !.pc = "ds_get", !.engine_name = engine_name,
                                  !.engine_id = GeneratedEngineId(engine_name, uuid4),
                                  !.data_store_id = data_store_id]]
    /\ UNCHANGED <<clock, tasks, engines, documents, buckets, blobs, remoteEngines,
                   remoteDataStores, indexed, ing, del, ddoc, engine_seq,
                   lst, gw>>

\* create_engine.py:48-54: _create_data_store has raised.
DataStoreFailed(call) == [call EXCEPT !.data_store_status = "failed"]

\* CreateDataStoreGet with the error of the data store step logged and the
\* creation carried on.
CreateDataStoreGet_continuing_on_failure(k) ==
    /\ cre[k].pc = "ds_get"
    /\ \E outcome \in {"answer", "fatal"} :
        IF outcome # "answer"
        THEN cre' = [cre EXCEPT ![k] = [DataStoreFailed(cre[k]) EXCEPT !.pc = "engine"]]
        ELSE IF cre[k].data_store_id \in remoteDataStores
        THEN cre' = [cre EXCEPT ![k].pc = "engine",
                                ![k].data_store_status = "existing"]
        ELSE cre' = [cre EXCEPT ![k].pc = "ds_create"]
    /\ UNCHANGED <<clock, tasks, engines, documents, buckets, blobs, remoteEngines,
                   remoteDataStores, indexed, ing, del, ddoc, engine_seq,
                   lst, gw>>

\* datastore_service.py:10-29: get_data_store; NotFound leads to the create
\* call, any other error is raised (create_engine.py:53-54).
CreateDataStoreGet(k) ==
    /\ cre[k].pc = "ds_get"
    /\ \E outcome \in {"answer", "fatal"} :
        IF outcome # "answer"
        THEN CreateRaised(k, DataStoreFailed(cre[k]))
        ELSE IF cre[k].data_store_id \in remoteDataStores
        THEN cre' = [cre EXCEPT ![k].pc = "engine",
                                ![k].data_store_status = "existing"]
        ELSE cre' = [cre EXCEPT ![k].pc = "ds_create"]
    /\ UNCHANGED <<clock, tasks, engines, documents, buckets, blobs, remoteEngines,
                   remoteDataStores, indexed, ing, del, ddoc, engine_seq,
                   lst, gw>>

\* AlreadyExists of create_data_store handled as any other error.
create_data_store_raising_on_conflict(exists, outcome, refetch) ==
    IF outcome = "answer" /\ ~exists THEN "created" ELSE "raise"

\* datastore_service.py:46-68: what _create_data_store ends with after its
\* create call: AlreadyExists leads to a second get_data_store and to status
\* "existing"; an error of that get_data_store is raised as any other is.
create_data_store(exists, outcome, refetch) ==
    IF outcome = "fatal" THEN "raise"
    ELSE IF exists THEN (IF refetch = "answer" THEN "existing" ELSE "raise")
    ELSE IF outcome = "answer" THEN "created" ELSE "raise"

\* datastore_service.py:46-68: create_data_store and the wait for it.
CreateDataStoreCreate(k) ==
    /\ cre[k].pc = "ds_create"
    /\ \E outcome \in CreateOutcomes, refetch \in {"answer", "fatal"} :
        LET exists == cre[k].data_store_id \in remoteDataStores
            status == create_data_store(exists, outcome, refetch)
        IN  /\ remoteDataStores' = IF outcome = "fatal" THEN remoteDataStores
                                   ELSE remoteDataStores \cup {cre[k].data_store_id}
            /\ IF status = "raise"
               THEN CreateRaised(k, DataStoreFailed(cre[k]))
               ELSE cre' = [cre EXCEPT ![k].pc = "engine",
                                       ![k].data_store_status = status]
    /\ UNCHANGED <<clock, tasks, engines, documents, buckets, blobs, remoteEngines,
                   indexed, ing, del, ddoc, engine_seq,
                   lst, gw>>

\* create_engine.py:74-79, 114-116, 139-141: create_engine and the wait for
\* it; AlreadyExists leads to the fetch of the existing engine, any other
\* error is raised.
CreateRemoteEngine(k) ==
    /\ cre[k].pc = "engine"
    /\ \E outcome \in CreateOutcomes :
        IF outcome = "fatal"
        THEN /\ CreateRaised(k, cre[k])
             /\ remoteEngines' = remoteEngines
        ELSE IF cre[k].engine_id \in remoteEngines
        THEN /\ cre' = [cre EXCEPT ![k].pc = "existing"]
             /\ remoteEngines' = remoteEngines
        ELSE /\ remoteEngines' = remoteEngines \cup {cre[k].engine_id}
             /\ IF outcome = "answer"
                THEN cre' = [cre EXCEPT ![k].pc = "bucket",
                                        ![k].engine_confirmed = "created"]
                ELSE CreateRaised(k, cre[k])
    /\ UNCHANGED <<clock, tasks, engines, documents, buckets, blobs,
                   remoteDataStores, indexed, ing, del, ddoc, engine_seq,
                   lst, gw>>

\* create_engine.py:81-89: the bucket of the engine; an error is raised.
CreateBucket(k) ==
    /\ cre[k].pc = "bucket"
    /\ \E outcome \in {"answer", "fatal"} :
        LET res == _create_gcs_bucket(
                        BucketName(cre[k].engine_id, cre[k].data_store_id), outcome)
        IN  /\ buckets' = res.buckets
            /\ IF res.ok
               THEN cre' = [cre EXCEPT ![k].pc = "save"]
               ELSE CreateRaised(k, cre[k])
    /\ UNCHANGED <<clock, tasks, engines, documents, blobs, remoteEngines,
                   remoteDataStores, indexed, ing, del, ddoc, engine_seq,
                   lst, gw>>

\* create_engine.py:91-112: the Engine row is written and 201 returned; a
\* database error is raised.
CreateSaveEngine(k) ==
    /\ cre[k].pc = "save"
    /\ \E db_outcome \in {"answer", "fatal"} :
        LET res == save_engine_to_db(engines, engine_seq, cre[k].engine_id,
                                     cre[k].engine_name, cre[k].data_store_id)
        IN  IF db_outcome # "answer"
            THEN /\ CreateRaised(k, cre[k])
                 /\ UNCHANGED <<engines, engine_seq>>
            ELSE /\ engines' = res.table
                 /\ engine_seq' = res.seq
                 /\ cre' = [cre EXCEPT ![k].pc = "done", ![k].row_id = res.row_id,
                                       ![k].status_code = HTTP_201_CREATED]
    /\ UNCHANGED <<clock, tasks, documents, buckets, blobs, remoteEngines,
                   remoteDataStores, indexed, ing, del, ddoc,
                   lst, gw>>

\* The AlreadyExists path without the get_engine call that confirms the
\* engine.
CreateFetchExisting_without_get_engine(k) ==
    /\ cre[k].pc = "existing"
    /\ \E outcome \in {"answer", "fatal"} :
        cre' = [cre EXCEPT ![k].pc = "save_existing"]
    /\ UNCHANGED <<clock, tasks, engines, documents, buckets, blobs, remoteEngines,
                   remoteDataStores, indexed, ing, del, ddoc, engine_seq,
                   lst, gw>>

\* create_engine.py:117-118, 134-138: get_engine after AlreadyExists; NotFound
\* and any other error are raised.
CreateFetchExisting(k) ==
    /\ cre[k].pc = "existing"
    /\ \E outcome \in {"answer", "fatal"} :
        IF outcome = "answer" /\ cre[k].engine_id \in remoteEngines
        THEN cre' = [cre EXCEPT ![k].pc = "save_existing",
                                ![k].engine_confirmed = "existing"]
        ELSE CreateRaised(k, cre[k])
    /\ UNCHANGED <<clock, tasks, engines, documents, buckets, blobs, remoteEngines,
                   remoteDataStores, indexed, ing, del, ddoc, engine_seq,
                   lst, gw>>

\* create_engine.py:119-133: the Engine row is written and 200 returned; a
\* database error is raised.
CreateSaveExisting(k) ==
    /\ cre[k].pc = "save_existing"
    /\ \E db_outcome \in {"answer", "fatal"} :
        LET res == save_engine_to_db(engines, engine_seq, cre[k].engine_id,
                                     cre[k].engine_name, cre[k].data_store_id)
        IN  IF db_outcome # "answer"
            THEN /\ CreateRaised(k, cre[k])
                 /\ UNCHANGED <<engines, engine_seq>>
            ELSE /\ engines' = res.table
                 /\ engine_seq' = res.seq
                 /\ cre' = [cre EXCEPT ![k].pc = "done", ![k].row_id = res.row_id,
                                       ![k].status_code = HTTP_200_OK]
    /\ UNCHANGED <<clock, tasks, documents, buckets, blobs, remoteEngines,
                   remoteDataStores, indexed, ing, del, ddoc,
                   lst, gw>>

CreateStep(k) ==
    \/ CreateGenerateIds(k)
    \/ CreateDataStoreGet(k)
    \/ CreateDataStoreCreate(k)
    \/ CreateRemoteEngine(k)
    \/ CreateBucket(k)
    \/ CreateSaveEngine(k)
    \/ CreateFetchExisting(k)
    \/ CreateSaveExisting(k)

\* A deployment with nothing in it yet.
InitCreate ==
    /\ engines = <<>>
    /\ InitStores({})

NextCreate == \E k \in CreateCalls : CreateStep(k)

SpecCreate == InitCreate /\ [][NextCreate]_vars


(***************************************************************************)
(* Claims about engine creation, checked under SpecCreate.                 *)
(***************************************************************************)
\* Creation call k takes a step.
CreateStepped(k) == cre'[k] # cre[k]

\* C16: when the data store step of a creation fails, the request fails with
\* an error (500 at the endpoint) and takes no further step, and the request
\* has created no remote engine, no bucket and no Engine record: none at the
\* failing step and none before it.
C16_DataStoreFailureFailsCreation ==
    /\ [](\A k \in CreateCalls :
            cre[k].data_store_status = "failed" =>
                /\ cre[k].pc = "raised"
                /\ cre[k].status_code = HTTP_500_INTERNAL_SERVER_ERROR)
    /\ [][\A k \in CreateCalls :
            /\ cre[k].data_store_status = "failed" => ~CreateStepped(k)
            /\ (CreateStepped(k) /\ cre[k].data_store_status = "none") =>
                    UNCHANGED <<remoteEngines, buckets, engines, engine_seq>>]_vars

\* A creation failed at its data store step while another one went through.
C16_Witness ==
    \E k, j \in CreateCalls :
        /\ cre[k].data_store_status = "failed"
        /\ cre[k].pc = "raised"
        /\ cre[j].pc = "done"
        /\ cre[j].engine_id \in remoteEngines


\* The creation call writes its Engine row in this step.
Saves(k) == cre[k].pc \in {"save", "save_existing"} /\ cre'[k].pc = "done"

\* C18: the Engine table has one row per engine_id.  save_engine_to_db with an
\* engine_id that has a row inserts nothing, leaves the table as it is and
\* returns the id of that row; with a new engine_id it adds one row under a
\* row id no row has had.  Rows of different engines may carry the same
\* data_store_id.
C18_SaveKeepsExistingRow ==
    /\ [](\A e1, e2 \in DOMAIN engines :
            /\ engines[e1].id <= engine_seq
            /\ e1 # e2 => engines[e1].id # engines[e2].id)
    /\ [][\A k \in CreateCalls : Saves(k) =>
            IF cre[k].engine_id \in DOMAIN engines
            THEN /\ UNCHANGED <<engines, engine_seq>>
                 /\ cre'[k].row_id = engines[cre[k].engine_id].id
            ELSE /\ DOMAIN engines' = DOMAIN engines \cup {cre[k].engine_id}
                 /\ \A e \in DOMAIN engines : engines'[e] = engines[e]
                 /\ engines'[cre[k].engine_id] =
                        [id |-> engine_seq + 1, engine_name |-> cre[k].engine_name,
                         data_store_id |-> cre[k].data_store_id]
                 /\ cre'[k].row_id = engine_seq + 1]_vars

\* A call was answered with the id of the row another call had written under
\* the same engine_id with another data_store_id.
C18_Witness ==
    \E k, j \in CreateCalls :
        /\ k # j
        /\ cre[k].pc = "done" /\ cre[j].pc = "done"
        /\ cre[k].engine_id = cre[j].engine_id
        /\ cre[k].data_store_id # cre[j].data_store_id
        /\ cre[k].row_id = cre[j].row_id
        /\ cre[k].engine_id \in DOMAIN engines
        /\ engines[cre[k].engine_id].data_store_id = cre[j].data_store_id

\* Two Engine rows carry one data_store_id.
C18_WitnessSharedDataStore ==
    \E e1, e2 \in DOMAIN engines :
        e1 # e2 /\ engines[e1].data_store_id = engines[e2].data_store_id

(***************************************************************************)
(* The life of an engine: creation calls and deletion calls against one    *)
(* deployment that starts empty.                                           *)
(***************************************************************************)
MaxLifecycleDeletes == 1    \* deletion calls next to the creation calls

NextLifecycle ==
    \/ \E k \in CreateCalls : CreateStep(k)
    \/ \E c \in 1..MaxLifecycleDeletes :
        \/ DeleteEngineLookup(c)
        \/ DeleteRemoteEngine(c)
        \/ DeleteGcsFiles(c)
        \/ DeleteDataStore(c)
        \/ DeleteEngineRecord(c)
        \/ DeleteDocumentRecords(c)

SpecLifecycle == InitCreate /\ [][NextLifecycle]_vars


(***************************************************************************)
(* Claims about the life of an engine, checked under SpecLifecycle.        *)
(***************************************************************************)
\* The remote engine of the creation call was created by it or fetched by it.
Confirmed(k) == cre[k].engine_confirmed \in {"created", "existing"}

\* C17: an Engine record is written only by a creation call whose remote
\* engine was confirmed (created, or found to exist), and removed only by a
\* deletion call whose remote engine delete step has been attempted; so every
\* Engine record is that of an engine some creation call has confirmed.
C17_EngineRecordBetweenConfirmAndDelete ==
    /\ [](\A e \in DOMAIN engines :
            \E k \in CreateCalls : cre[k].engine_id = e /\ Confirmed(k))
    /\ [][\A e \in EngineIds :
            /\ (e \notin DOMAIN engines /\ e \in DOMAIN engines') =>
                    \E k \in CreateCalls :
                        CreateStepped(k) /\ cre[k].engine_id = e /\ Confirmed(k)
            /\ (e \in DOMAIN engines /\ e \notin DOMAIN engines') =>
                    \E c \in DeleteCalls :
                        /\ Stepped(c)
                        /\ del[c].engine_id = e
                        /\ del[c].engine_response \in {"deleted", "not_found"}]_vars

\* One call created the engine, one found it existing, and a deletion has
\* removed the record both had written.
C17_Witness ==
    \E k, j \in CreateCalls, c \in DeleteCalls :
        /\ cre[k].pc = "done" /\ cre[k].engine_confirmed = "created"
        /\ cre[j].pc = "done" /\ cre[j].engine_confirmed = "existing"
        /\ cre[j].engine_id = cre[k].engine_id
        /\ del[c].pc = "done" /\ del[c].engine_id = cre[k].engine_id
        /\ cre[k].engine_id \notin DOMAIN engines


(***************************************************************************)
(* Document listing: GET /engines/{engine_id}/documents                    *)
(* (routers/ingest_document.py:103-135), get_documents_by_engine           *)
(* (services/ingestion_service.py:262-294) and get_documents_by_engine_id  *)
(* (services/database.py:215-272).  The rows carry the columns the query   *)
(* selects and sorts by.                                                   *)
(***************************************************************************)
valid_sort_fields == {"uploaded_at", "filename", "file_size"}
valid_sort_orders == {"asc", "desc"}

SortByValues == valid_sort_fields \cup {"created_at", "gcs_uri"}
SortOrderValues == {"asc", "desc", "DESC", "Asc", "up", ""}
Limits == {1, 100}
Offsets == {0, 1}

\* str.lower() on the sort orders above.
str_lower(s) == CASE s = "DESC" -> "desc" [] s = "Asc" -> "asc" [] OTHER -> s

ListRows ==
    { [engine_id |-> e, data_store_id |-> "ds1", filename |-> f,
       gcs_uri |-> GcsUri(BucketName(e, "ds1"), ts, f),
       file_size |-> z, uploaded_at |-> t] :
        e \in EngineIds, f \in StoredFiles, z \in {5, 9},
        ts \in 0..MaxClock, t \in 0..MaxClock }

\* The subsets of S with at most n elements.
RECURSIVE SubsetsUpTo(_, _)
SubsetsUpTo(S, n) ==
    IF n = 0 THEN {{}}
    ELSE LET smaller == SubsetsUpTo(S, n - 1)
         IN  smaller \cup { T \cup {x} : T \in smaller, x \in S }

ListTables ==
    { DocTable(rows) : rows \in
        { S \in SubsetsUpTo({ d \in ListRows : d.gcs_uri.ts <= d.uploaded_at },
                            MaxListDocs) :
            \A d1, d2 \in S : d1.gcs_uri = d2.gcs_uri => d1 = d2 } }

\* The ORDER BY built from sort_by as it was passed.
order_by_unvalidated(sort_by, sort_order) ==
    [sort_field |-> sort_by,
     sort_direction |-> IF str_lower(sort_order) = "desc" THEN "DESC" ELSE "ASC"]

\* database.py:239-245: the ORDER BY the query is built with.
order_by(sort_by, sort_order) ==
    [sort_field |-> IF sort_by \in valid_sort_fields THEN sort_by ELSE "uploaded_at",
     sort_direction |-> IF str_lower(sort_order) = "desc" THEN "DESC" ELSE "ASC"]

\* The value of a row in the column it is sorted by.
SortKey(row, sort_field) ==
    CASE sort_field = "filename" -> NameCode(row.filename)
      [] sort_field = "file_size" -> row.file_size
      [] OTHER -> row.uploaded_at

Ordered(ids, sort_field, sort_direction) ==
    \A i, j \in DOMAIN ids : i < j =>
        IF sort_direction = "DESC"
        THEN SortKey(documents[ids[i]], sort_field) >= SortKey(documents[ids[j]], sort_field)
        ELSE SortKey(documents[ids[i]], sort_field) <= SortKey(documents[ids[j]], sort_field)

\* LIMIT ? OFFSET ?
Page(ids, limit, offset) ==
    SubSeq(ids, offset + 1, IF offset + limit < Len(ids) THEN offset + limit ELSE Len(ids))

\* database.py:247-272: the answers the query can give; rows that are equal
\* in the sort column come in any order.
get_documents_by_engine_id(engine_id, limit, offset, sort_by, sort_order) ==
    LET ob == order_by(sort_by, sort_order)
        found == {i \in DOMAIN documents : documents[i].engine_id = engine_id}
        sorted == { ids \in [1..Cardinality(found) -> found] :
                        /\ \A i, j \in DOMAIN ids : i # j => ids[i] # ids[j]
                        /\ Ordered(ids, ob.sort_field, ob.sort_direction) }
    IN  { Page(ids, limit, offset) : ids \in sorted }

\* routers/ingest_document.py:103-135: the endpoint takes no sort_by; a
\* sort_order that is given and is neither asc nor desc is answered with 400.
ListDocumentsEndpoint(l) ==
    /\ lst[l].pc = "idle"
    /\ \E engine_id \in EngineIds, limit \in Limits, offset \in Offsets,
          sort_order \in SortOrderValues :
        LET args == [lst[l] EXCEPT !.engine_id = engine_id, !.limit = limit,
                                   !.offset = offset, !.sort_by = "uploaded_at",
                                   !.sort_order = sort_order]
            ob == order_by("uploaded_at", sort_order)
        IN  IF sort_order # "" /\ str_lower(sort_order) \notin valid_sort_orders
            THEN lst' = [lst EXCEPT ![l] = [args EXCEPT !.pc = "raised",
                                                !.status_code = HTTP_400_BAD_REQUEST]]
            ELSE \E returned \in get_documents_by_engine_id(
                                    engine_id, limit, offset, "uploaded_at", sort_order) :
                    lst' = [lst EXCEPT ![l] =
                                [args EXCEPT !.pc = "done",
                                             !.sort_field = ob.sort_field,
                                             !.sort_direction = ob.sort_direction,
                                             !.returned = returned,
                                             !.status_code = HTTP_200_OK]]
    /\ UNCHANGED <<clock, tasks, engines, documents, buckets, blobs, remoteEngines,
                   remoteDataStores, indexed, ing, del, ddoc, engine_seq, cre, gw>>

\* database.py:215-272: the query function called with a sort_by and a
\* sort_order of the caller's choice.
ListDocumentsQuery(l) ==
    /\ lst[l].pc = "idle"
    /\ \E engine_id \in EngineIds, limit \in Limits, offset \in Offsets,
          sort_by \in SortByValues, sort_order \in SortOrderValues :
        LET ob == order_by(sort_by, sort_order)
        IN  \E returned \in get_documents_by_engine_id(
                                engine_id, limit, offset, sort_by, sort_order) :
                lst' = [lst EXCEPT ![l] =
                            [@ EXCEPT !.pc = "returned", !.engine_id = engine_id,
                                      !.limit = limit, !.offset = offset,
                                      !.sort_by = sort_by, !.sort_order = sort_order,
                                      !.sort_field = ob.sort_field,
                                      !.sort_direction = ob.sort_direction,
                                      !.returned = returned]]
    /\ UNCHANGED <<clock, tasks, engines, documents, buckets, blobs, remoteEngines,
                   remoteDataStores, indexed, ing, del, ddoc, engine_seq, cre, gw>>

InitList ==
    /\ engines = [e \in EngineIds |->
                    [id |-> RowId(EngineIds, e), engine_name |-> NameOf(e),
                     data_store_id |-> "ds1"]]
    /\ documents \in ListTables
    /\ buckets = {BucketName(e, engines[e].data_store_id) : e \in DOMAIN engines}
    /\ blobs = {documents[i].gcs_uri : i \in DOMAIN documents}
    /\ remoteEngines = DOMAIN engines
    /\ remoteDataStores = {"ds1"}
    /\ indexed = {<<documents[i].data_store_id, i>> : i \in DOMAIN documents}
    /\ clock = MaxClock
    /\ tasks = <<>>
    /\ ing = [r \in Requests |-> IdleRequest]
    /\ del = [c \in DeleteCalls |-> IdleDelete]
    /\ ddoc = [k \in DocDeletes |-> IdleDocDelete]
    /\ engine_seq = Cardinality(DOMAIN engines)
    /\ cre = [k \in CreateCalls |-> IdleCreate]
    /\ lst = [l \in ListCalls |-> IdleList]
    /\ gw = [g \in GatewayCalls |-> IdleGateway]

NextList ==
    \E l \in ListCalls :
        \/ ListDocumentsEndpoint(l)
        \/ ListDocumentsQuery(l)

SpecList == InitList /\ [][NextList]_vars


(***************************************************************************)
(* Claims about document listing, checked under SpecList.                  *)
(***************************************************************************)
BadSortBy(l) == lst[l].sort_by \notin valid_sort_fields
BadSortOrder(l) == str_lower(lst[l].sort_order) \notin valid_sort_orders

C19_WitnessRejected ==
    \E l \in ListCalls :
        lst[l].pc = "raised" /\ lst[l].sort_order = "up"


(***************************************************************************)
(* Engine id generation (create_engine.py:34-38) on every display name of  *)
(* up to MaxNameLen characters.                                            *)
(***************************************************************************)
DisplayNames == UNION { [1..n -> NameChars] : n \in 0..MaxNameLen }

GenerateEngineId(k) ==
    /\ cre[k].pc = "idle"
    /\ \E engine_name \in DisplayNames, uuid4 \in Uuids :
        cre' = [cre EXCEPT ![k] =
                    [@ EXCEPT !.pc = "generated", !.engine_name = engine_name,
                              !.engine_id = GeneratedEngineId(engine_name, uuid4)]]
    /\ UNCHANGED <<clock, tasks, engines, documents, buckets, blobs, remoteEngines,
                   remoteDataStores, indexed, ing, del, ddoc, engine_seq, lst, gw>>

NextEngineId == \E k \in CreateCalls : GenerateEngineId(k)

SpecEngineId == InitCreate /\ [][NextEngineId]_vars

\* The part of a generated id before its hyphen and 8-character suffix, and
\* the suffix.
SanitizedPart(engine_id) == SubSeq(engine_id, 1, Len(engine_id) - 9)
Suffix(engine_id) == SubSeq(engine_id, Len(engine_id) - 7, Len(engine_id))

\* C20: a generated engine_id is the sanitized display name, a hyphen and 8
\* hexadecimal digits.  The sanitized part holds only hyphens and
\* alphanumeric characters that are their own lower case, sanitizing it again
\* changes nothing, and two generations from the same name with the same
\* suffix give the same id.
C20_EngineIdIsSanitizedNamePlusSuffix ==
    \A k \in CreateCalls : cre[k].pc = "generated" =>
        LET id == cre[k].engine_id
            base == SanitizedPart(id)
        IN  /\ Len(id) >= 9
            /\ id[Len(id) - 8] = "-"
            /\ \A i \in 1..8 : Suffix(id)[i] \in HexChars
            /\ base = engine_id_base(cre[k].engine_name)
            /\ \A i \in DOMAIN base :
                    base[i] = "-" \/ (isalnum(base[i]) /\ lower_char(base[i]) = base[i])
            /\ engine_id_base(base) = base
            /\ \A j \in CreateCalls :
                    (/\ cre[j].pc = "generated"
                     /\ cre[j].engine_name = cre[k].engine_name
                     /\ Suffix(cre[j].engine_id) = Suffix(id)) => cre[j].engine_id = id

\* Two generations from an upper-case letter followed by an underscore, with
\* the same suffix.
C20_Witness ==
    \E k, j \in CreateCalls :
        /\ k # j
        /\ cre[k].pc = "generated" /\ cre[j].pc = "generated"
        /\ cre[k].engine_name = <<"A", "_">> /\ cre[j].engine_name = <<"A", "_">>
        /\ SanitizedPart(cre[k].engine_id) = <<"a", "-">>
        /\ Suffix(cre[k].engine_id) = Suffix(cre[j].engine_id)


(***************************************************************************)
(* The gateway functions called on their own, one action per attempt:      *)
(* _ingest_document_from_gcs (services/ingestion_service.py:37-138),       *)
(* _upload_file_to_gcs and _get_or_create_bucket (services/gcs_service.py).*)
(***************************************************************************)
\* "attempt < max_retries - 1" of every retry branch without the comparison.
can_retry_unbounded(attempt, max_retries) == TRUE

\* ingestion_service.py:129, gcs_service.py:77, 89, 103, 161, 173:
\* attempt < max_retries - 1
can_retry(attempt, max_retries) == attempt < max_retries - 1

GatewayUris == {GcsUri(BucketName(e, "ds1"), 0, "a.pdf") : e \in EngineIds}

\* ingestion_service.py:37-69, 138: the call; with max_retries = 0 the loop
\* has no pass and line 138 raises.
ImportCall(g) ==
    /\ gw[g].pc = "idle"
    /\ \E max_retries \in 0..MaxRetries, gcs_uri \in GatewayUris :
        gw' = [gw EXCEPT ![g] =
                [@ EXCEPT !.fn = "import", !.max_retries = max_retries,
                          !.gcs_uri = gcs_uri, !.data_store_id = gcs_uri.bucket[2],
                          !.pc = IF max_retries = 0 THEN "raised" ELSE "running",
                          !.error = IF max_retries = 0 THEN "failed to import document"
                                    ELSE "none"]]
    /\ UNCHANGED <<clock, tasks, engines, documents, buckets, blobs, remoteEngines,
                   remoteDataStores, indexed, ing, del, ddoc, engine_seq, cre, lst>>

\* ingestion_service.py:69-136: one pass of the loop.  The attempt returns the
\* counts, or its exception is retried when its text has a keyword and a pass
\* is left, or raised with the text in the message.
ImportAttempt(g) ==
    /\ gw[g].pc = "running" /\ gw[g].fn = "import"
    /\ \E outcome \in ImportOutcomes :
        LET error == import_attempt_error(outcome)
            entry == <<gw[g].data_store_id,
                       _calculate_document_id_from_gcs_uri(gw[g].gcs_uri)>>
            tried == [gw[g] EXCEPT !.attempt = @ + 1, !.outcome = outcome]
        IN  /\ indexed' = IF outcome.error = "none" /\ outcome.success_count > 0
                          THEN indexed \cup {entry} ELSE indexed
            /\ gw' = [gw EXCEPT ![g] =
                        IF error = "none"
                        THEN [tried EXCEPT !.pc = "returned",
                                           !.success_count = outcome.success_count,
                                           !.failure_count = outcome.failure_count]
                        ELSE IF is_retryable(error)
                                /\ can_retry(gw[g].attempt, gw[g].max_retries)
                        THEN [tried EXCEPT !.retried = TRUE, !.error = error]
                        ELSE [tried EXCEPT !.pc = "raised", !.error = error]]
    /\ UNCHANGED <<clock, tasks, engines, documents, buckets, blobs, remoteEngines,
                   remoteDataStores, ing, del, ddoc, engine_seq, cre, lst>>

GatewayBuckets == {BucketName(e, "ds1") : e \in EngineIds}

\* The timestamp of the key taken anew by every attempt.
blob_timestamp_per_attempt(call_time, attempt_time) == attempt_time

\* gcs_service.py:138-140: the key is built once, before the loop, from the
\* time of the call.
blob_timestamp(call_time, attempt_time) == call_time

\* gcs_service.py:113-142, 180: the call; with max_retries = 0 line 180 raises.
UploadCall(g) ==
    /\ gw[g].pc = "idle"
    /\ \E max_retries \in 0..MaxRetries, bucket_name \in GatewayBuckets :
        gw' = [gw EXCEPT ![g] =
                [@ EXCEPT !.fn = "upload", !.max_retries = max_retries,
                          !.bucket_name = bucket_name, !.filename = "a.pdf",
                          !.timestamp = clock,
                          !.gcs_uri = GcsUri(bucket_name, clock, "a.pdf"),
                          !.pc = IF max_retries = 0 THEN "raised" ELSE "running",
                          !.error = IF max_retries = 0 THEN "failed to upload file"
                                    ELSE "none"]]
    /\ UNCHANGED <<clock, tasks, engines, documents, buckets, blobs, remoteEngines,
                   remoteDataStores, indexed, ing, del, ddoc, engine_seq, cre, lst>>

\* What one pass of the upload loop can meet.  "late": the object is written
\* and the call still raises a transient error.
UploadAttemptOutcomes(bucket_name) ==
    IF bucket_name \in buckets
    THEN {"answer", "lost", "transient", "late", "fatal"}
    ELSE {"notfound", "transient", "fatal"}

\* gcs_service.py:142-178: one pass of the loop.
UploadAttempt(g) ==
    /\ gw[g].pc = "running" /\ gw[g].fn = "upload"
    /\ \E outcome \in UploadAttemptOutcomes(gw[g].bucket_name) :
        LET key == GcsUri(gw[g].bucket_name,
                          blob_timestamp(gw[g].timestamp, clock), gw[g].filename)
            wrote == outcome \in {"answer", "late"}
            tried == [gw[g] EXCEPT !.attempt = @ + 1,
                                   !.written = IF wrote THEN @ \cup {key} ELSE @]
        IN  /\ blobs' = IF wrote THEN blobs \cup {key} ELSE blobs
            /\ gw' = [gw EXCEPT ![g] =
                        CASE outcome = "answer" -> [tried EXCEPT !.pc = "returned"]
                          [] outcome \in {"notfound", "transient", "late"} ->
                                IF can_retry(gw[g].attempt, gw[g].max_retries)
                                THEN [tried EXCEPT !.retried = TRUE, !.error = outcome]
                                ELSE [tried EXCEPT !.pc = "raised", !.error = outcome]
                          [] OTHER -> [tried EXCEPT !.pc = "raised", !.error = outcome]]
    /\ UNCHANGED <<clock, tasks, engines, documents, buckets, remoteEngines,
                   remoteDataStores, indexed, ing, del, ddoc, engine_seq, cre, lst>>

\* gcs_service.py:6-34, 110: the call; with max_retries = 0 line 110 raises.
BucketCall(g) ==
    /\ gw[g].pc = "idle"
    /\ \E max_retries \in 0..MaxRetries, bucket_name \in GatewayBuckets :
        gw' = [gw EXCEPT ![g] =
                [@ EXCEPT !.fn = "bucket", !.max_retries = max_retries,
                          !.bucket_name = bucket_name,
                          !.pc = IF max_retries = 0 THEN "raised" ELSE "get",
                          !.error = IF max_retries = 0
                                    THEN "failed to get or create bucket" ELSE "none"]]
    /\ UNCHANGED <<clock, tasks, engines, documents, buckets, blobs, remoteEngines,
                   remoteDataStores, indexed, ing, del, ddoc, engine_seq, cre, lst>>

\* The end of a pass of the bucket loop by an exception: the next pass when the
\* error is retryable and a pass is left, else RuntimeError.
BucketPassFailed(c, retryable, error) ==
    IF retryable /\ can_retry(c.attempt, c.max_retries)
    THEN [c EXCEPT !.pc = "get", !.attempt = @ + 1, !.retried = TRUE, !.error = error]
    ELSE [c EXCEPT !.pc = "raised", !.attempt = @ + 1, !.error = error]

\* gcs_service.py:35-41, 96-108: get_bucket at the head of a pass.
BucketGet(g) ==
    /\ gw[g].pc = "get"
    /\ \E outcome \in CallOutcomes :
        gw' = [gw EXCEPT ![g] =
                CASE outcome = "answer" /\ gw[g].bucket_name \in buckets ->
                        [@ EXCEPT !.pc = "returned", !.attempt = @ + 1,
                                  !.fetched = TRUE]
                  [] outcome = "answer" -> [@ EXCEPT !.pc = "create"]
                  [] OTHER -> BucketPassFailed(@, outcome = "transient", outcome)]
    /\ UNCHANGED <<clock, tasks, engines, documents, buckets, blobs, remoteEngines,
                   remoteDataStores, indexed, ing, del, ddoc, engine_seq, cre, lst>>

\* Lines 55-67 returning as soon as create_bucket has answered.
BucketCreate_without_verification(g) ==
    /\ gw[g].pc = "create"
    /\ gw[g].bucket_name \notin buckets
    /\ buckets' = buckets \cup {gw[g].bucket_name}
    /\ gw' = [gw EXCEPT ![g] = [@ EXCEPT !.pc = "returned", !.attempt = @ + 1,
                                         !.created = TRUE]]
    /\ UNCHANGED <<clock, tasks, engines, documents, blobs, remoteEngines,
                   remoteDataStores, indexed, ing, del, ddoc, engine_seq, cre, lst>>

\* gcs_service.py:43-56, 69-72, 83-94: create_bucket.  It creates the bucket,
\* answers Conflict when the bucket is there, or raises another error.
BucketCreate(g) ==
    /\ gw[g].pc = "create"
    /\ \E outcome \in CallOutcomes :
        IF outcome = "answer" /\ gw[g].bucket_name \notin buckets
        THEN /\ buckets' = buckets \cup {gw[g].bucket_name}
             /\ gw' = [gw EXCEPT ![g] = [@ EXCEPT !.pc = "verify", !.created = TRUE]]
        ELSE /\ buckets' = buckets
             /\ gw' = [gw EXCEPT ![g] =
                        IF outcome = "answer"
                        THEN [@ EXCEPT !.pc = "conflict", !.conflict = TRUE]
                        ELSE BucketPassFailed(@, outcome = "transient", outcome)]
    /\ UNCHANGED <<clock, tasks, engines, documents, blobs, remoteEngines,
                   remoteDataStores, indexed, ing, del, ddoc, engine_seq, cre, lst>>

\* gcs_service.py:58-67, 83-94: the propagation wait and the get_bucket that
\* verifies the new bucket; its exception is handled as one of the creation.
BucketVerify(g) ==
    /\ gw[g].pc = "verify"
    /\ \E outcome \in CallOutcomes :
        gw' = [gw EXCEPT ![g] =
                IF outcome = "answer"
                THEN [@ EXCEPT !.pc = "returned", !.attempt = @ + 1,
                               !.waited = TRUE, !.fetched = TRUE]
                ELSE BucketPassFailed([@ EXCEPT !.waited = TRUE],
                                      outcome = "transient", outcome)]
    /\ UNCHANGED <<clock, tasks, engines, documents, buckets, blobs, remoteEngines,
                   remoteDataStores, indexed, ing, del, ddoc, engine_seq, cre, lst>>

\* gcs_service.py:69-81: after Conflict, the get_bucket of the bucket another
\* caller created; any exception of it is retried while a pass is left.
BucketConflict(g) ==
    /\ gw[g].pc = "conflict"
    /\ \E outcome \in CallOutcomes :
        gw' = [gw EXCEPT ![g] =
                IF outcome = "answer"
                THEN [@ EXCEPT !.pc = "returned", !.attempt = @ + 1, !.fetched = TRUE]
                ELSE BucketPassFailed(@, TRUE, outcome)]
    /\ UNCHANGED <<clock, tasks, engines, documents, buckets, blobs, remoteEngines,
                   remoteDataStores, indexed, ing, del, ddoc, engine_seq, cre, lst>>

InitGateway ==
    /\ engines = [e \in EngineIds |->
                    [id |-> RowId(EngineIds, e), engine_name |-> NameOf(e),
                     data_store_id |-> "ds1"]]
    /\ documents = <<>>
    /\ buckets \in SUBSET {BucketName(e, "ds1") : e \in EngineIds}
    /\ blobs = {}
    /\ remoteEngines = DOMAIN engines
    /\ remoteDataStores = {"ds1"}
    /\ indexed = {}
    /\ clock = 0
    /\ tasks = <<>>
    /\ ing = [r \in Requests |-> IdleRequest]
    /\ del = [c \in DeleteCalls |-> IdleDelete]
    /\ ddoc = [k \in DocDeletes |-> IdleDocDelete]
    /\ engine_seq = Cardinality(DOMAIN engines)
    /\ cre = [k \in CreateCalls |-> IdleCreate]
    /\ lst = [l \in ListCalls |-> IdleList]
    /\ gw = [g \in GatewayCalls |-> IdleGateway]

NextGateway ==
    \/ \E g \in GatewayCalls :
        \/ ImportCall(g)
        \/ ImportAttempt(g)
        \/ UploadCall(g)
        \/ UploadAttempt(g)
        \/ BucketCall(g)
        \/ BucketGet(g)
        \/ BucketCreate(g)
        \/ BucketVerify(g)
        \/ BucketConflict(g)
    \/ Tick

SpecGateway == InitGateway /\ [][NextGateway]_vars


\* C23: an import whose operation reports failure_count > 0 together with
\* success_count > 0 returns both counts to the caller and does not raise.
C23_PartialImportReturnsBothCounts ==
    \A g \in GatewayCalls :
        (/\ gw[g].fn = "import"
         /\ gw[g].outcome.error = "none"
         /\ gw[g].outcome.failure_count > 0
         /\ gw[g].outcome.success_count > 0)
        => /\ gw[g].pc = "returned"
           /\ gw[g].success_count = gw[g].outcome.success_count
           /\ gw[g].failure_count = gw[g].outcome.failure_count

\* The wording of the transient errors: the words of the retry vocabulary and
\* the status codes they stand for (5xx; 404 for not found).
transient_vocabulary ==
    {"not found", "404", "unavailable", "deadline", "timeout", "500", "502", "503",
     "does not exist", "no such object"}

ImportStepped(g) ==
    /\ gw[g].fn = "import" /\ gw[g].pc = "running"
    /\ gw'[g].attempt = gw[g].attempt + 1

\* C24: an import attempt is followed by another one only when its error has a
\* word of the transient vocabulary; with any other error the call raises at
\* once, the raised message carries that error, and no further import is
\* triggered by the call.
C24_ImportRetriesOnlyTransientErrors ==
    /\ [][\A g \in GatewayCalls :
            ImportStepped(g) =>
                LET error == import_attempt_error(gw'[g].outcome)
                IN  /\ gw'[g].pc = "running"
                        => WordsIn(error) \cap transient_vocabulary # {}
                    /\ (error # "none" /\ WordsIn(error) \cap transient_vocabulary = {})
                        => gw'[g].pc = "raised" /\ gw'[g].error = error]_vars
    /\ [][\A g \in GatewayCalls :
            gw[g].pc = "raised" => gw'[g] = gw[g]]_vars

C24_Witness ==
    \E g \in GatewayCalls :
        /\ gw[g].fn = "import" /\ gw[g].pc = "raised"
        /\ gw[g].error = "403 permission denied"
        /\ gw[g].attempt = 1 /\ gw[g].max_retries = 3

C24_WitnessRetried ==
    \E g \in GatewayCalls :
        /\ gw[g].fn = "import" /\ gw[g].retried
        /\ gw[g].error = "503 unavailable"
        /\ gw[g].pc = "returned"


\* Two callers of the bucket gateway, the first of which may call the upload
\* or the import gateway instead.
NextGatewayFair ==
    \/ \E g \in GatewayCalls :
        \/ BucketCall(g)
        \/ BucketGet(g)
        \/ BucketCreate(g)
        \/ BucketVerify(g)
        \/ BucketConflict(g)
    \/ ImportCall(1)
    \/ ImportAttempt(1)
    \/ UploadCall(1)
    \/ UploadAttempt(1)

\* Every started call goes on to its next step.
SpecGatewayFair ==
    /\ InitGateway /\ [][NextGatewayFair]_vars
    /\ \A g \in GatewayCalls :
        /\ WF_vars(ImportAttempt(g))
        /\ WF_vars(UploadAttempt(g))
        /\ WF_vars(BucketGet(g))
        /\ WF_vars(BucketCreate(g))
        /\ WF_vars(BucketVerify(g))
        /\ WF_vars(BucketConflict(g))

GatewayEnded(g) == gw[g].pc \in {"returned", "raised"}

\* C25: every retry loop of the gateways (bucket get-or-create, upload,
\* import) ends: a call makes at most max_retries attempts and then has
\* returned or raised.
C25_RetryLoopsTerminate ==
    /\ [](\A g \in GatewayCalls : gw[g].attempt <= gw[g].max_retries)
    /\ \A g \in GatewayCalls : (gw[g].pc # "idle") ~> GatewayEnded(g)
    /\ [][\A g \in GatewayCalls : GatewayEnded(g) => gw'[g] = gw[g]]_vars

C25_Witness ==
    /\ gw[2].fn = "bucket" /\ gw[2].pc = "raised"
    /\ gw[2].attempt = MaxRetries /\ gw[2].max_retries = MaxRetries
    /\ gw[1].fn = "upload" /\ gw[1].pc = "raised"
    /\ gw[1].attempt = MaxRetries /\ gw[1].max_retries = MaxRetries

C25_WitnessImport ==
    \E g \in GatewayCalls :
        /\ gw[g].fn = "import" /\ gw[g].pc = "raised"
        /\ gw[g].attempt = MaxRetries /\ gw[g].max_retries = MaxRetries


\* C26: within the ingestion workflow a transient failure of the upload or of
\* the import is retried by the gateway before the ingestion fails: when the
\* first attempt meets one transient error and the second would succeed, the
\* step succeeds.
C26_SingleTransientErrorIsRetried ==
    \A r \in Requests :
        /\ ing[r].pc = "upload" =>
            \A outcomes \in [1..MaxRetries -> UploadOutcomes] :
                (outcomes[1] = "transient" /\ outcomes[2] = "answer")
                => _upload_file_to_gcs(ingestion_upload_retries, outcomes) = "ok"
        /\ ing[r].pc = "uploaded" =>
            \A outcomes \in [1..MaxRetries -> ImportOutcomes] :
                (/\ outcomes[1].error = "503 unavailable"
                 /\ import_attempt_error(outcomes[2]) = "none")
                => _ingest_document_from_gcs(ingestion_import_retries, outcomes) = "ok"


\* C27: all attempts of one _upload_file_to_gcs call write the same object
\* key, the one built from the timestamp taken before the first attempt; one
\* call creates at most one object; the URI it returns is the URI of that key
\* and is returned only once the object is there.
C27_UploadAttemptsShareOneKey ==
    \A g \in GatewayCalls :
        gw[g].fn = "upload" =>
            /\ gw[g].written \subseteq
                {GcsUri(gw[g].bucket_name, gw[g].timestamp, gw[g].filename)}
            /\ Cardinality(gw[g].written) <= 1
            /\ gw[g].pc = "returned" =>
                /\ gw[g].gcs_uri = GcsUri(gw[g].bucket_name, gw[g].timestamp,
                                          gw[g].filename)
                /\ gw[g].gcs_uri \in gw[g].written
                /\ gw[g].gcs_uri \in blobs

C27_Witness ==
    \E g \in GatewayCalls :
        /\ gw[g].fn = "upload" /\ gw[g].pc = "returned"
        /\ gw[g].retried /\ gw[g].error = "late" /\ gw[g].attempt = 2
        /\ clock > gw[g].timestamp


\* C28: two uploads of the same filename into the same bucket never write the
\* same key, so the later one never overwrites the earlier one's object, and
\* the two never get the same document_id.
C28_RepeatedUploadsGetDistinctKeys ==
    \A r1, r2 \in Requests :
        (/\ r1 # r2
         /\ ing[r1].gcs_uri # NoUri /\ ing[r2].gcs_uri # NoUri
         /\ ing[r1].filename = ing[r2].filename
         /\ ing[r1].gcs_uri.bucket = ing[r2].gcs_uri.bucket)
        => /\ ing[r1].gcs_uri # ing[r2].gcs_uri
           /\ _calculate_document_id_from_gcs_uri(ing[r1].gcs_uri)
                # _calculate_document_id_from_gcs_uri(ing[r2].gcs_uri)


\* C29: a bucket call that created the bucket returns only after the
\* propagation wait and a get_bucket that answered; a call whose creation met
\* Conflict finds the bucket there and returns it unless the get_bucket after
\* the conflict keeps failing; of two calls for the same bucket name that meet
\* no remote error both return, and only one of them has created the bucket.
C29_BucketProvisioning ==
    /\ \A g \in GatewayCalls :
        gw[g].fn = "bucket" =>
            /\ (gw[g].pc = "returned" /\ gw[g].created)
                => gw[g].waited /\ gw[g].fetched
            /\ gw[g].pc = "returned" => gw[g].bucket_name \in buckets
            /\ gw[g].conflict => gw[g].bucket_name \in buckets /\ ~gw[g].created
            /\ (gw[g].conflict /\ gw[g].error = "none" /\ gw[g].pc # "conflict")
                => gw[g].pc = "returned"
    /\ \A g1, g2 \in GatewayCalls :
        (/\ g1 # g2
         /\ gw[g1].fn = "bucket" /\ gw[g2].fn = "bucket"
         /\ gw[g1].bucket_name = gw[g2].bucket_name)
        => /\ ~(gw[g1].created /\ gw[g2].created)
           /\ (/\ GatewayEnded(g1) /\ GatewayEnded(g2)
               /\ gw[g1].error = "none" /\ gw[g2].error = "none")
              => gw[g1].pc = "returned" /\ gw[g2].pc = "returned"

C29_Witness ==
    /\ gw[1].fn = "bucket" /\ gw[2].fn = "bucket"
    /\ gw[1].bucket_name = gw[2].bucket_name
    /\ gw[1].pc = "returned" /\ gw[1].created /\ gw[1].waited
    /\ gw[2].pc = "returned" /\ gw[2].conflict


BucketOf(r) == BucketName(ing[r].engine_id, ing[r].data_store_id)

MaxBlobTimestamp == 1

\* The Document rows the blob loop is run on: up to four files per engine.
BlobLoopRows ==
    { [engine_id |-> e, data_store_id |-> "ds1",
       gcs_uri |-> GcsUri(BucketName(e, "ds1"), ts, f)] :
        e \in EngineIds, ts \in 0..MaxBlobTimestamp, f \in StoredFiles }

\* The rows of a query as a list, in the order of their document_id.
RECURSIVE rows_as_list(_)
rows_as_list(uris) ==
    IF uris = {} THEN <<>>
    ELSE LET first == CHOOSE u \in uris :
                        \A v \in uris : encode_utf8(u) <= encode_utf8(v)
         IN  <<first>> \o rows_as_list(uris \ {first})

\* The whole list of failed URIs in the warning.
failed_files_listed_in_full(failed_files) == failed_files

\* gcs_service.py:244  failed_files[:3]
failed_files_listed(failed_files) ==
    SubSeq(failed_files, 1, IF Len(failed_files) < 3 THEN Len(failed_files) ELSE 3)

\* gcs_service.py:241-247: the result once the loop is over.
BlobLoopResult(c) ==
    IF c.failed_files # <<>>
    THEN [c EXCEPT !.pc = "returned", !.success = c.deleted_files > 0,
                   !.warning = [kind |-> "gcs_failed", count |-> Len(c.failed_files),
                                listed |-> failed_files_listed(c.failed_files)]]
    ELSE [c EXCEPT !.pc = "returned", !.success = TRUE]

\* gcs_service.py:203-217, 249-252: the call reads the engine's URIs; a failing
\* client or query returns (False, warning), no URI returns (True, warning).
DeleteFilesCall(g) ==
    /\ gw[g].pc = "idle"
    /\ \E engine_id \in EngineIds, client_outcome \in {"answer", "fatal"} :
        LET gcs_uris == rows_as_list(get_document_gcs_uris_by_engine(engine_id))
            called == [gw[g] EXCEPT !.fn = "delete_files", !.engine_id = engine_id]
        IN  gw' = [gw EXCEPT ![g] =
                    IF client_outcome # "answer"
                    THEN [called EXCEPT !.pc = "returned", !.error = "fatal",
                            !.warning = [kind |-> "gcs_error", count |-> 0,
                                         listed |-> <<>>]]
                    ELSE IF gcs_uris = <<>>
                    THEN [called EXCEPT !.pc = "returned", !.success = TRUE,
                            !.warning = [kind |-> "no_gcs_files", count |-> 0,
                                         listed |-> <<>>]]
                    ELSE [called EXCEPT !.pc = "running", !.gcs_uris = gcs_uris]]
    /\ UNCHANGED <<clock, tasks, engines, documents, buckets, blobs, remoteEngines,
                   remoteDataStores, indexed, ing, del, ddoc, engine_seq, cre, lst>>

\* gcs_service.py:220-247: one pass of the loop, and the result after the
\* last one.  blob.delete() raises for a blob that is not there and may raise
\* for one that is.
DeleteFilesAttempt(g) ==
    /\ gw[g].pc = "running" /\ gw[g].fn = "delete_files"
    /\ \E outcome \in {"answer", "fatal"} :
        LET gcs_uri == gw[g].gcs_uris[gw[g].attempt + 1]
            deleted == outcome = "answer" /\ gcs_uri \in blobs
            tried == [gw[g] EXCEPT
                        !.attempt = @ + 1,
                        !.attempted = Append(@, gcs_uri),
                        !.deleted_files = IF deleted THEN @ + 1 ELSE @,
                        !.failed_files = IF deleted THEN @ ELSE Append(@, gcs_uri)]
        IN  /\ blobs' = IF deleted THEN blobs \ {gcs_uri} ELSE blobs
            /\ gw' = [gw EXCEPT ![g] =
                        IF tried.attempt = Len(tried.gcs_uris)
                        THEN BlobLoopResult(tried) ELSE tried]
    /\ UNCHANGED <<clock, tasks, engines, documents, buckets, remoteEngines,
                   remoteDataStores, indexed, ing, del, ddoc, engine_seq, cre, lst>>

InitBlobLoop ==
    /\ engines = [e \in EngineIds |->
                    [id |-> RowId(EngineIds, e), engine_name |-> NameOf(e),
                     data_store_id |-> "ds1"]]
    /\ \E rows \in SUBSET BlobLoopRows : InitStores(rows)

NextBlobLoop ==
    \E g \in GatewayCalls :
        \/ DeleteFilesCall(g)
        \/ DeleteFilesAttempt(g)

SpecBlobLoop == InitBlobLoop /\ [][NextBlobLoop]_vars


\* C31: a call of _delete_gcs_bucket_and_files attempts the deletion of every
\* blob URI recorded in the Document rows of its engine exactly once and goes
\* on after a failure; it deletes no blob recorded only for another engine;
\* its warning lists at most the first 3 failed URIs.
C31_EveryRecordedBlobAttemptedOnce ==
    /\ [](\A g \in GatewayCalls :
            gw[g].fn = "delete_files" =>
                /\ gw[g].attempted = SubSeq(gw[g].gcs_uris, 1, gw[g].attempt)
                /\ Cardinality(Range(gw[g].gcs_uris)) = Len(gw[g].gcs_uris)
                /\ gw[g].pc = "running" =>
                    Range(gw[g].gcs_uris) =
                        get_document_gcs_uris_by_engine(gw[g].engine_id)
                /\ (gw[g].pc = "returned" /\ gw[g].error = "none") =>
                    /\ Range(gw[g].attempted) =
                            get_document_gcs_uris_by_engine(gw[g].engine_id)
                    /\ Len(gw[g].attempted) = Len(gw[g].gcs_uris)
                    /\ Len(gw[g].failed_files) + gw[g].deleted_files
                            = Len(gw[g].gcs_uris)
                    /\ gw[g].warning.count = Len(gw[g].failed_files)
                    /\ Len(gw[g].warning.listed) <= 3
                    /\ \A i \in 1..Len(gw[g].warning.listed) :
                            gw[g].warning.listed[i] = gw[g].failed_files[i])
    /\ [][\A u \in blobs \ blobs' :
            \E g \in GatewayCalls :
                /\ gw[g].fn = "delete_files" /\ gw'[g].attempt = gw[g].attempt + 1
                /\ u \in get_document_gcs_uris_by_engine(gw[g].engine_id)]_vars

C31_Witness ==
    \E g \in GatewayCalls :
        /\ gw[g].fn = "delete_files" /\ gw[g].pc = "returned"
        /\ Len(gw[g].gcs_uris) = 4 /\ Len(gw[g].failed_files) = 4
        /\ Len(gw[g].warning.listed) = 3
        /\ \E e \in EngineIds :
            e # gw[g].engine_id /\ get_document_gcs_uris_by_engine(e) # {}

C31_WitnessGoesOnAfterFailure ==
    \E g \in GatewayCalls :
        /\ gw[g].fn = "delete_files" /\ gw[g].pc = "returned"
        /\ Len(gw[g].gcs_uris) = 3
        /\ gw[g].failed_files = <<gw[g].gcs_uris[1]>>
        /\ gw[g].deleted_files = 2 /\ gw[g].success


\* C32: creation is idempotent under races.  When the data store appears
\* between the existence check and the create call, _create_data_store
\* fetches it again and returns status "existing"; when create_engine reports
\* that the engine already exists, the call fetches the engine, writes the
\* Engine row and returns HTTP 200; neither is turned into an error.
C32_CreationIdempotentUnderRaces ==
    /\ [](\A k \in CreateCalls :
            (cre[k].pc = "ds_create" /\ cre[k].data_store_id \in remoteDataStores)
            => \A outcome \in {"answer", "late"} :
                    create_data_store(TRUE, outcome, "answer") = "existing")
    /\ [][\A k \in CreateCalls :
            (/\ cre[k].pc = "ds_create" /\ cre'[k] # cre[k]
             /\ cre[k].data_store_id \in remoteDataStores)
            => \/ cre'[k].pc = "engine" /\ cre'[k].data_store_status = "existing"
               \/ cre'[k].pc = "raised"]_vars
    /\ [][\A k \in CreateCalls :
            (/\ cre[k].pc = "engine" /\ cre'[k] # cre[k]
             /\ cre[k].engine_id \in remoteEngines)
            => cre'[k].pc \in {"existing", "raised"}]_vars
    /\ [](\A k \in CreateCalls :
            (cre[k].pc = "done" /\ cre[k].engine_confirmed = "existing")
            => /\ cre[k].status_code = HTTP_200_OK
               /\ cre[k].engine_id \in DOMAIN engines
               /\ cre[k].engine_id \in remoteEngines)

C32_Witness ==
    \E k1, k2 \in CreateCalls :
        /\ k1 # k2 /\ cre[k1].engine_id = cre[k2].engine_id
        /\ cre[k1].pc = "raised" /\ cre[k1].engine_id \in remoteEngines
        /\ cre[k2].pc = "done" /\ cre[k2].status_code = HTTP_200_OK
        /\ cre[k2].engine_id \in DOMAIN engines

C32_WitnessDataStoreRace ==
    \E k1, k2 \in CreateCalls :
        /\ k1 # k2 /\ cre[k1].data_store_id = cre[k2].data_store_id
        /\ cre[k1].data_store_status = "created"
        /\ cre[k2].pc = "ds_create"


\* C33: every Document row's engine_id is the engine_id of an Engine row,
\* except while the deletion call that removed the Engine row has not yet
\* returned: no Document row is there for an engine without a row, and none
\* outlives its Engine row once the deletion has returned.
C33_DocumentsReferToEngineRecord ==
    \A id \in DOMAIN documents :
        \/ documents[id].engine_id \in DOMAIN engines
        \/ \E c \in DeleteCalls :
            /\ del[c].engine_id = documents[id].engine_id
            /\ del[c].pc = "documents"


\* C34: when two engines that share one data store are deleted by two
\* concurrent calls with delete_data_store = true and no deletion of the data
\* store has failed, the remote data store is gone once both calls have
\* returned and no Engine row uses it.
C34_SharedDataStoreDeletedByOneOfTwo ==
    \A c1, c2 \in DeleteCalls :
        (/\ c1 # c2
         /\ del[c1].pc = "done" /\ del[c2].pc = "done"
         /\ del[c1].engine_id # del[c2].engine_id
         /\ del[c1].data_store_id = del[c2].data_store_id
         /\ del[c1].delete_data_store /\ del[c2].delete_data_store
         /\ ~HasWarning(c1, "ds_failed") /\ ~HasWarning(c2, "ds_failed")
         /\ \A e \in DOMAIN engines :
                engines[e].data_store_id # del[c1].data_store_id)
        => del[c1].data_store_id \notin remoteDataStores


\* C35: when a creation call has ended, with success or with an error, the
\* remote engine with the generated id exists if and only if an Engine row
\* for that id is in the table.
C35_RemoteEngineIffEngineRecord ==
    \A k \in CreateCalls :
        (cre[k].pc \in {"done", "raised"} /\ cre[k].engine_id # NoEngineId)
        => (cre[k].engine_id \in remoteEngines <=> cre[k].engine_id \in DOMAIN engines)

\* C36: after a creation call has returned success, with 201 or with 200, the
\* bucket derived from the returned engine_id and data_store_id exists.
C36_BucketExistsAfterCreation ==
    \A k \in CreateCalls :
        cre[k].pc = "done"
        => BucketName(cre[k].engine_id, cre[k].data_store_id) \in buckets


(***************************************************************************)
(* The bucket name of an (engine_id, data_store_id) pair, character by     *)
(* character (create_engine.py:81, ingestion_service.py:155).  The         *)
(* deployments above use BucketName, the pair itself: their engine names   *)
(* are short enough for the derived name to keep both ids whole.           *)
(***************************************************************************)
bucket_name_limit == 63

\* create_engine.py:41  f"ds-{str(uuid.uuid4())}"
GeneratedDataStoreId(uuid4) == <<"d", "s", "-">> \o uuid4

\* f"{engine_id}-{data_store_id}".lower().replace("_", "-")[:63]
bucket_name(engine_id, data_store_id) ==
    LET joined == engine_id \o <<"-">> \o data_store_id
        lowered == [i \in DOMAIN joined |-> lower_char(joined[i])]
        replaced == [i \in DOMAIN lowered |->
                        IF lowered[i] = "_" THEN "-" ELSE lowered[i]]
    IN  SubSeq(replaced, 1, IF Len(replaced) < bucket_name_limit
                            THEN Len(replaced) ELSE bucket_name_limit)

\* Display names of 3, 14, 15, 50 and 54 characters.
BucketEngineNames ==
    {<<"A", "_", "b">>} \cup {[i \in 1..n |-> "b"] : n \in {14, 15, 50, 54}}

\* create_engine.py:34-41, 81: the two generated ids and the bucket name
\* derived from them.
CreateDeriveBucketName(g) ==
    /\ gw[g].pc = "idle"
    /\ \E engine_name \in BucketEngineNames, engine_uuid \in Uuids,
          data_store_uuid \in Uuids :
        LET engine_id == GeneratedEngineId(engine_name, engine_uuid)
        IN  gw' = [gw EXCEPT ![g] =
                    [@ EXCEPT !.pc = "created", !.fn = "bucket_name",
                              !.engine_id = engine_id,
                              !.data_store_uuid = GeneratedDataStoreId(data_store_uuid),
                              !.bucket_name =
                                  bucket_name(engine_id,
                                              GeneratedDataStoreId(data_store_uuid))]]
    /\ UNCHANGED <<clock, tasks, engines, documents, buckets, blobs, remoteEngines,
                   remoteDataStores, indexed, ing, del, ddoc, engine_seq, cre, lst>>

\* ingestion_service.py:155: the name ingestion looks up for the same ids.
IngestDeriveBucketName(g) ==
    /\ gw[g].pc = "created" /\ gw[g].fn = "bucket_name"
    /\ gw' = [gw EXCEPT ![g] =
                [@ EXCEPT !.pc = "returned",
                          !.ingestion_bucket_name =
                              bucket_name(gw[g].engine_id, gw[g].data_store_uuid)]]
    /\ UNCHANGED <<clock, tasks, engines, documents, buckets, blobs, remoteEngines,
                   remoteDataStores, indexed, ing, del, ddoc, engine_seq, cre, lst>>

InitBucketName ==
    /\ engines = <<>>
    /\ InitStores({})

NextBucketName ==
    \E g \in GatewayCalls :
        \/ CreateDeriveBucketName(g)
        \/ IngestDeriveBucketName(g)

SpecBucketName == InitBucketName /\ [][NextBucketName]_vars

\* C37: two distinct (engine_id, data_store_id) pairs produced by engine
\* creation have distinct bucket names, and the name ingestion derives for a
\* pair is the name creation derived for it.
C37_BucketNamesArePerEngine ==
    /\ \A g \in GatewayCalls :
        (gw[g].fn = "bucket_name" /\ gw[g].pc = "returned")
        => gw[g].ingestion_bucket_name = gw[g].bucket_name
    /\ \A g1, g2 \in GatewayCalls :
        (/\ gw[g1].fn = "bucket_name" /\ gw[g2].fn = "bucket_name"
         /\ <<gw[g1].engine_id, gw[g1].data_store_uuid>>
                # <<gw[g2].engine_id, gw[g2].data_store_uuid>>)
        => gw[g1].bucket_name # gw[g2].bucket_name


\* C38: a deletion call that has returned reports gcs_files_deleted = true
\* only if every blob recorded for the engine's documents is gone from the
\* blob store.
C38_GcsFilesDeletedMeansAllBlobsGone ==
    \A c \in DeleteCalls :
        (del[c].pc = "done" /\ del[c].gcs_files_deleted)
        => \A gcs_uri \in del[c].uris_at_gcs_step : gcs_uri \notin blobs

(***************************************************************************)
(* Document deletion over HTTP: delete_document_endpoint                   *)
(* (routers/ingest_document.py:172-218).                                   *)
(***************************************************************************)
\* ingestion_service.py:1-15, 18, 37, 141, 262, 298: the names the module
\* services.ingestion_service binds, by import and by def.
ingestion_service_names ==
    {"time", "DocumentServiceClient", "ImportDocumentsRequest", "GcsSource",
     "Document", "UploadFile", "HTTPException", "status", "Dict", "Any",
     "settings", "IngestResponse", "storage", "_get_gcs_bucket",
     "_upload_file_to_gcs", "save_document_to_db", "get_documents_by_engine_id",
     "get_total_document_count", "delete_document_from_db", "update_task_in_db",
     "hashlib", "_calculate_document_id_from_gcs_uri", "_ingest_document_from_gcs",
     "ingestion", "get_documents_by_engine", "delete_document_logic"}

\* database.py:298-330: SELECT ... WHERE document_id = ? AND engine_id = ?;
\* fetchone() gives the row, or none when no row of that engine has the id
\* (the rows found, at most one as document_id is the primary key).
get_document_by_id(document_id, engine_id) ==
    {documents[id] : id \in {i \in DOMAIN documents :
                                i = document_id /\ documents[i].engine_id = engine_id}}

\* The ids a request may name: the id of every document an engine of the
\* table could hold, stored or not.
RequestedDocumentIds ==
    {_calculate_document_id_from_gcs_uri(d.gcs_uri) : d \in DocRowsOf(engines)}

\* ingest_document.py:193: from services.ingestion_service import ...; the
\* statement raises ImportError unless the module binds every name.
from_ingestion_service_import(names) == names \subseteq ingestion_service_names

\* ingest_document.py:178-218: the import at line 193 runs inside the try;
\* when it raises, except Exception (214-218) answers 500.  Otherwise the
\* row is looked up (194), a missing row answers 404 (195-199) and a found
\* row is handed to delete_document_logic (201-207).
DeleteDocumentEndpoint(k) ==
    /\ ddoc[k].pc = "idle"
    /\ \E document_id \in RequestedDocumentIds, engine_id \in EngineIds :
        LET found == get_document_by_id(document_id, engine_id)
            call == [ddoc[k] EXCEPT !.document_id = document_id,
                                    !.engine_id = engine_id]
        IN  ddoc' = [ddoc EXCEPT ![k] =
                IF ~from_ingestion_service_import(
                        {"get_document_by_id", "delete_document_logic"})
                THEN [call EXCEPT !.pc = "responded",
                                  !.status_code = HTTP_500_INTERNAL_SERVER_ERROR]
                ELSE IF found = {}
                THEN [call EXCEPT !.pc = "responded",
                                  !.status_code = HTTP_404_NOT_FOUND]
                ELSE LET doc == CHOOSE row \in found : TRUE
                     IN  [call EXCEPT !.pc = "index",
                                      !.data_store_id = doc.data_store_id,
                                      !.gcs_uri = doc.gcs_uri]]
    /\ UNCHANGED <<clock, tasks, engines, documents, buckets, blobs, remoteEngines,
                   remoteDataStores, indexed, ing, del, engine_seq, cre, lst, gw>>

NextDocDeleteEndpoint ==
    \E k \in DocDeletes : DeleteDocumentEndpoint(k)

SpecDocDeleteEndpoint == InitDocDelete /\ [][NextDocDeleteEndpoint]_vars

\* C39: a delete request for (engine_id, document_id) with no Document row
\* of that id under that engine is answered with 404, and its step removes
\* no index entry, no blob and no Document row of any engine.
C39_UnknownDocumentAnswered404 ==
    /\ [](\A k \in DocDeletes :
            (ddoc[k].pc = "responded"
                /\ get_document_by_id(ddoc[k].document_id, ddoc[k].engine_id) = {})
            => ddoc[k].status_code = HTTP_404_NOT_FOUND)
    /\ [][\A k \in DocDeletes :
            (ddoc[k].pc = "idle" /\ ddoc'[k].pc # "idle"
                /\ get_document_by_id(ddoc'[k].document_id, ddoc'[k].engine_id) = {})
            => UNCHANGED <<documents, blobs, indexed>>]_vars

====
